---- MODULE Spec2Model ----
(***************************************************************************)
(* Byte-by-byte MIDI 1.0 parser (midi/midi.c, midi/midi.h).                *)
(*                                                                         *)
(* The parser is a record of the fields of midi_parser_t, the caller's     *)
(* output message a record of the fields of midi_message_t.  The anonymous *)
(* union of midi_message_t is kept as its storage bytes (offsets 0..4), so *)
(* that members that share storage alias each other as they do in C; the   *)
(* layout is the usual one: uint8_t members packed from offset 0, uint16_t *)
(* little-endian at offset 0, midi_controller_t an int-sized little-endian *)
(* enum at offset 0 followed by control_value at offset 4.                 *)
(***************************************************************************)
EXTENDS Integers, Sequences, FiniteSets, TLC

(***************************************************************************)
(* midi.c private defines                                                  *)
(***************************************************************************)
MIDI_MSN_MASK == 240
MIDI_LSN_MASK == 15
MIDI_CHANNEL_MASK == 15
MIDI_MSB_MASK == 128
MIDI_BUFFER_SIZE == 2
MIDI_MAX_DATA_BYTE == 127

(***************************************************************************)
(* midi.h enumerators                                                      *)
(***************************************************************************)
MIDI_CHANNEL_1 == 0
MIDI_CHANNEL_2 == 1
MIDI_CHANNEL_NONE == 255

MIDI_MESSAGE_NONE == 0
MIDI_MESSAGE_NOTE_OFF == 128
MIDI_MESSAGE_NOTE_ON == 144
MIDI_MESSAGE_KEY_PRESSURE == 160
MIDI_MESSAGE_CONTROL_CHANGE == 176
MIDI_MESSAGE_ALL_SOUND_OFF == 120
MIDI_MESSAGE_RESET_ALL_CONTROLLERS == 121
MIDI_MESSAGE_LOCAL_CONTROL == 122
MIDI_MESSAGE_ALL_NOTES_OFF == 123
MIDI_MESSAGE_OMNI_OFF == 124
MIDI_MESSAGE_OMNI_ON == 125
MIDI_MESSAGE_MONO_ON == 126
MIDI_MESSAGE_POLY_ON == 127
MIDI_MESSAGE_PROGRAM_CHANGE == 192
MIDI_MESSAGE_CHANNEL_PRESSURE == 208
MIDI_MESSAGE_PITCH_BEND == 224
MIDI_MESSAGE_SYSTEM_EXCLUSIVE == 240
MIDI_MESSAGE_MTC_QUARTER_FRAME == 241
MIDI_MESSAGE_SONG_POSITION_POINTER == 242
MIDI_MESSAGE_SONG_SELECT == 243
MIDI_MESSAGE_TUNE_REQUEST == 246
MIDI_MESSAGE_END_OF_EXCLUSIVE == 247
MIDI_MESSAGE_TIMING_CLOCK == 248
MIDI_MESSAGE_START == 250
MIDI_MESSAGE_CONTINUE == 251
MIDI_MESSAGE_STOP == 252
MIDI_MESSAGE_ACTIVE_SENSE == 254
MIDI_MESSAGE_SYSTEM_RESET == 255

MIDI_CC_ALL_SOUND_OFF == 120
MIDI_CC_RESET_ALL_CONTROLLERS == 121
MIDI_CC_LOCAL_CONTROL == 122
MIDI_CC_ALL_NOTES_OFF == 123
MIDI_CC_OMNI_OFF == 124
MIDI_CC_OMNI_ON == 125
MIDI_CC_MONO_ON == 126
MIDI_CC_POLY_ON == 127

\* A null pointer argument.
NULL == [null |-> TRUE]

(***************************************************************************)
(* C integer operators on non-negative values                              *)
(***************************************************************************)
RECURSIVE BitAndBits(_, _)
BitAndBits(a, b) ==
    IF a = 0 \/ b = 0 THEN 0
    ELSE (IF a % 2 = 1 /\ b % 2 = 1 THEN 1 ELSE 0)
         + 2 * BitAndBits(a \div 2, b \div 2)

\* a & b; the three masks of midi.c select a bit field of the byte directly.
BitAnd(a, b) ==
    CASE b = 15 -> a % 16
      [] b = 240 -> ((a \div 16) % 16) * 16
      [] b = 128 -> ((a \div 128) % 2) * 128
      [] OTHER -> BitAndBits(a, b)

RECURSIVE BitOr(_, _)
BitOr(a, b) ==
    IF a = 0 THEN b
    ELSE IF b = 0 THEN a
    ELSE (IF a % 2 = 1 \/ b % 2 = 1 THEN 1 ELSE 0) + 2 * BitOr(a \div 2, b \div 2)

Shl(a, n) == a * (2 ^ n)
Shr(a, n) == a \div (2 ^ n)

(***************************************************************************)
(* midi_message_t: storage of the anonymous union and its members          *)
(***************************************************************************)
UnionBytes == 5

StoreU8(data, off, v) == [data EXCEPT ![off + 1] = v % 256]
StoreU16(data, off, v) ==
    [data EXCEPT ![off + 1] = v % 256, ![off + 2] = (v \div 256) % 256]
StoreEnum(data, off, v) ==
    [data EXCEPT ![off + 1] = v % 256, ![off + 2] = (v \div 256) % 256,
                 ![off + 3] = (v \div 65536) % 256, ![off + 4] = (v \div 16777216) % 256]
LoadU8(data, off) == data[off + 1]
LoadU16(data, off) == data[off + 1] + 256 * data[off + 2]
LoadEnum(data, off) ==
    data[off + 1] + 256 * data[off + 2] + 65536 * data[off + 3] + 16777216 * data[off + 4]

note(m) == LoadU8(m.data, 0)
velocity(m) == LoadU8(m.data, 1)
key(m) == LoadU8(m.data, 0)
key_pressure(m) == LoadU8(m.data, 1)
controller(m) == LoadEnum(m.data, 0)
control_value(m) == LoadU8(m.data, 4)
program(m) == LoadU8(m.data, 0)
channel_pressure(m) == LoadU8(m.data, 0)
pitch_bend(m) == LoadU16(m.data, 0)
song_position(m) == LoadU16(m.data, 0)
song_select(m) == LoadU8(m.data, 0)
mtc_msg_type(m) == LoadU8(m.data, 0)
mtc_values(m) == LoadU8(m.data, 1)

\* The caller's message after memset(&message, 0, sizeof(message)).
ZeroMessage ==
    [message_type |-> 0, channel |-> 0, data |-> [i \in 1..UnionBytes |-> 0]]

(***************************************************************************)
(* midi_parser_init / midi_parser_reset                                    *)
(***************************************************************************)
InitialParser ==
    [message_type |-> MIDI_MESSAGE_NONE,
     channel |-> MIDI_CHANNEL_NONE,
     active_channel |-> MIDI_CHANNEL_NONE,
     buffer |-> <<0, 0>>,
     byte_count |-> 0]

\* midi_parser_init without clearing the buffer.
midi_parser_init_KeepsBuffer(p) ==
    IF p = NULL THEN p
    ELSE [p EXCEPT !.message_type = MIDI_MESSAGE_NONE,
                   !.channel = MIDI_CHANNEL_NONE,
                   !.active_channel = MIDI_CHANNEL_NONE,
                   !.byte_count = 0]

midi_parser_init(p) == IF p = NULL THEN p ELSE InitialParser

\* midi_parser_reset clearing the accumulation only, not the running status.
midi_parser_reset_KeepsRunningStatus(p) ==
    IF p = NULL THEN p
    ELSE [p EXCEPT !.active_channel = MIDI_CHANNEL_NONE,
                   !.buffer = <<0, 0>>,
                   !.byte_count = 0]

midi_parser_reset(p) == midi_parser_init(p)

\* midi_parser_set_active_channel / midi_parser_get_active_channel: declared
\* in midi.h; they store and retrieve the filter value.
midi_parser_set_active_channel(p, channel) ==
    IF p = NULL THEN p ELSE [p EXCEPT !.active_channel = channel]

midi_parser_get_active_channel(p) == p.active_channel

\* The result of one call: the parser and the message after it, and the
\* returned message type.
Result(p, m, r) == [parser |-> p, message |-> m, ret |-> r]

(***************************************************************************)
(* parse_status_byte                                                       *)
(***************************************************************************)
ChannelVoiceTypes ==
    {MIDI_MESSAGE_NOTE_OFF, MIDI_MESSAGE_NOTE_ON, MIDI_MESSAGE_KEY_PRESSURE,
     MIDI_MESSAGE_CONTROL_CHANGE, MIDI_MESSAGE_PROGRAM_CHANGE,
     MIDI_MESSAGE_CHANNEL_PRESSURE, MIDI_MESSAGE_PITCH_BEND}

SystemCommonDataTypes ==
    {MIDI_MESSAGE_MTC_QUARTER_FRAME, MIDI_MESSAGE_SONG_POSITION_POINTER,
     MIDI_MESSAGE_SONG_SELECT}

SystemCommonNoDataTypes ==
    {MIDI_MESSAGE_TUNE_REQUEST, MIDI_MESSAGE_END_OF_EXCLUSIVE}

SystemRealTimeTypes ==
    {MIDI_MESSAGE_TIMING_CLOCK, MIDI_MESSAGE_START, MIDI_MESSAGE_CONTINUE,
     MIDI_MESSAGE_STOP, MIDI_MESSAGE_ACTIVE_SENSE, MIDI_MESSAGE_SYSTEM_RESET}

\* StatusChannelVoice changed to drop the status bytes of the channels other
\* than the active one.
StatusChannelVoice_FiltersActiveChannel(parser, byte, message) ==
    IF /\ parser.active_channel # MIDI_CHANNEL_NONE
       /\ parser.active_channel # BitAnd(byte, MIDI_CHANNEL_MASK)
    THEN Result([parser EXCEPT !.message_type = MIDI_MESSAGE_NONE,
                               !.channel = MIDI_CHANNEL_NONE,
                               !.byte_count = 0],
                message, MIDI_MESSAGE_NONE)
    ELSE Result([parser EXCEPT !.message_type = BitAnd(byte, MIDI_MSN_MASK),
                               !.channel = BitAnd(byte, MIDI_CHANNEL_MASK),
                               !.byte_count = 0],
                message, MIDI_MESSAGE_NONE)

\* StatusChannelVoice without parser->channel = byte & MIDI_CHANNEL_MASK.
StatusChannelVoice_KeepsChannel(parser, byte, message) ==
    Result([parser EXCEPT !.message_type = BitAnd(byte, MIDI_MSN_MASK),
                          !.byte_count = 0],
           message, MIDI_MESSAGE_NONE)

\* StatusChannelVoice without parser->byte_count = 0.
StatusChannelVoice_KeepsCount(parser, byte, message) ==
    Result([parser EXCEPT !.message_type = BitAnd(byte, MIDI_MSN_MASK),
                          !.channel = BitAnd(byte, MIDI_CHANNEL_MASK)],
           message, MIDI_MESSAGE_NONE)

\* case MIDI_MESSAGE_NOTE_OFF .. MIDI_MESSAGE_PITCH_BEND of the outer switch
StatusChannelVoice(parser, byte, message) ==
    Result([parser EXCEPT !.message_type = BitAnd(byte, MIDI_MSN_MASK),
                          !.channel = BitAnd(byte, MIDI_CHANNEL_MASK),
                          !.byte_count = 0],
           message, MIDI_MESSAGE_NONE)

\* StatusSysEx without parser->byte_count = 0.
StatusSysEx_KeepsCount(parser, byte, message) ==
    Result([parser EXCEPT !.message_type = MIDI_MESSAGE_SYSTEM_EXCLUSIVE],
           [message EXCEPT !.message_type = MIDI_MESSAGE_SYSTEM_EXCLUSIVE,
                           !.channel = MIDI_CHANNEL_NONE],
           MIDI_MESSAGE_SYSTEM_EXCLUSIVE)

\* case MIDI_MESSAGE_SYSTEM_EXCLUSIVE of the inner switch
StatusSysEx(parser, byte, message) ==
    Result([parser EXCEPT !.message_type = MIDI_MESSAGE_SYSTEM_EXCLUSIVE,
                          !.byte_count = 0],
           [message EXCEPT !.message_type = MIDI_MESSAGE_SYSTEM_EXCLUSIVE,
                           !.channel = MIDI_CHANNEL_NONE],
           MIDI_MESSAGE_SYSTEM_EXCLUSIVE)

\* StatusSystemCommonData without parser->channel = MIDI_CHANNEL_NONE.
StatusSystemCommonData_KeepsChannel(parser, byte, message) ==
    Result([parser EXCEPT !.message_type = byte,
                          !.byte_count = 0],
           message, MIDI_MESSAGE_NONE)

\* StatusSystemCommonData without parser->byte_count = 0.
StatusSystemCommonData_KeepsCount(parser, byte, message) ==
    Result([parser EXCEPT !.message_type = byte,
                          !.channel = MIDI_CHANNEL_NONE],
           message, MIDI_MESSAGE_NONE)

\* case MIDI_MESSAGE_MTC_QUARTER_FRAME, _SONG_POSITION_POINTER, _SONG_SELECT
StatusSystemCommonData(parser, byte, message) ==
    Result([parser EXCEPT !.message_type = byte,
                          !.channel = MIDI_CHANNEL_NONE,
                          !.byte_count = 0],
           message, MIDI_MESSAGE_NONE)

\* StatusSystemCommonNoData without parser->message_type = MIDI_MESSAGE_NONE.
StatusSystemCommonNoData_KeepsStatus(parser, byte, message) ==
    Result([parser EXCEPT !.channel = MIDI_CHANNEL_NONE,
                          !.byte_count = 0],
           [message EXCEPT !.message_type = byte,
                           !.channel = MIDI_CHANNEL_NONE],
           byte)

\* StatusSystemCommonNoData without parser->channel = MIDI_CHANNEL_NONE.
StatusSystemCommonNoData_KeepsChannel(parser, byte, message) ==
    Result([parser EXCEPT !.message_type = MIDI_MESSAGE_NONE,
                          !.byte_count = 0],
           [message EXCEPT !.message_type = byte,
                           !.channel = MIDI_CHANNEL_NONE],
           byte)

\* StatusSystemCommonNoData changed to check the SysEx framing: an End of
\* Exclusive with no SysEx pending clears the status and reports nothing.
StatusSystemCommonNoData_ChecksFraming(parser, byte, message) ==
    IF byte = MIDI_MESSAGE_END_OF_EXCLUSIVE
       /\ parser.message_type # MIDI_MESSAGE_SYSTEM_EXCLUSIVE
    THEN Result([parser EXCEPT !.message_type = MIDI_MESSAGE_NONE,
                               !.channel = MIDI_CHANNEL_NONE,
                               !.byte_count = 0],
                message, MIDI_MESSAGE_NONE)
    ELSE Result([parser EXCEPT !.message_type = MIDI_MESSAGE_NONE,
                               !.channel = MIDI_CHANNEL_NONE,
                               !.byte_count = 0],
                [message EXCEPT !.message_type = byte,
                                !.channel = MIDI_CHANNEL_NONE],
                byte)

\* case MIDI_MESSAGE_TUNE_REQUEST, MIDI_MESSAGE_END_OF_EXCLUSIVE
StatusSystemCommonNoData(parser, byte, message) ==
    Result([parser EXCEPT !.message_type = MIDI_MESSAGE_NONE,
                          !.channel = MIDI_CHANNEL_NONE,
                          !.byte_count = 0],
           [message EXCEPT !.message_type = byte,
                           !.channel = MIDI_CHANNEL_NONE],
           byte)

\* StatusRealTime changed to clear running status like Tune Request does.
StatusRealTime_ClearsStatus(parser, byte, message) ==
    Result([parser EXCEPT !.message_type = MIDI_MESSAGE_NONE,
                          !.channel = MIDI_CHANNEL_NONE,
                          !.byte_count = 0],
           [message EXCEPT !.message_type = byte,
                           !.channel = MIDI_CHANNEL_NONE],
           byte)

\* StatusRealTime changed to restart the accumulation of the pending message.
StatusRealTime_RestartsCount(parser, byte, message) ==
    Result([parser EXCEPT !.byte_count = 0],
           [message EXCEPT !.message_type = byte,
                           !.channel = MIDI_CHANNEL_NONE],
           byte)

\* case MIDI_MESSAGE_TIMING_CLOCK .. MIDI_MESSAGE_SYSTEM_RESET
StatusRealTime(parser, byte, message) ==
    Result(parser,
           [message EXCEPT !.message_type = byte,
                           !.channel = MIDI_CHANNEL_NONE],
           byte)

\* StatusUndefined changed to restart the accumulation, as the defined status
\* bytes do.
StatusUndefined_RestartsCount(parser, byte, message) ==
    Result([parser EXCEPT !.byte_count = 0], message, MIDI_MESSAGE_NONE)

\* default of the inner and of the outer switch
StatusUndefined(parser, byte, message) ==
    Result(parser, message, MIDI_MESSAGE_NONE)

parse_status_byte(parser, byte, message) ==
    IF parser = NULL \/ message = NULL
    THEN Result(parser, message, MIDI_MESSAGE_NONE)
    ELSE LET msn == BitAnd(byte, MIDI_MSN_MASK) IN
         IF msn \in ChannelVoiceTypes
         THEN StatusChannelVoice(parser, byte, message)
         ELSE IF msn = MIDI_MESSAGE_SYSTEM_EXCLUSIVE
         THEN IF byte = MIDI_MESSAGE_SYSTEM_EXCLUSIVE
              THEN StatusSysEx(parser, byte, message)
              ELSE IF byte \in SystemCommonDataTypes
              THEN StatusSystemCommonData(parser, byte, message)
              ELSE IF byte \in SystemCommonNoDataTypes
              THEN StatusSystemCommonNoData(parser, byte, message)
              ELSE IF byte \in SystemRealTimeTypes
              THEN StatusRealTime(parser, byte, message)
              ELSE StatusUndefined(parser, byte, message)
         ELSE StatusUndefined(parser, byte, message)

(***************************************************************************)
(* parse_data_byte                                                         *)
(***************************************************************************)
\* ChannelModeControllers with the last case label (MIDI_CC_POLY_ON) missing.
ChannelModeControllers_NoPolyOn ==
    {MIDI_CC_ALL_SOUND_OFF, MIDI_CC_RESET_ALL_CONTROLLERS, MIDI_CC_LOCAL_CONTROL,
     MIDI_CC_ALL_NOTES_OFF, MIDI_CC_OMNI_OFF, MIDI_CC_OMNI_ON, MIDI_CC_MONO_ON}

ChannelModeControllers ==
    {MIDI_CC_ALL_SOUND_OFF, MIDI_CC_RESET_ALL_CONTROLLERS, MIDI_CC_LOCAL_CONTROL,
     MIDI_CC_ALL_NOTES_OFF, MIDI_CC_OMNI_OFF, MIDI_CC_OMNI_ON, MIDI_CC_MONO_ON,
     MIDI_CC_POLY_ON}

\* parser->buffer[parser->byte_count++] = byte;  (byte_count is a uint8_t)
Accumulate(parser, byte) ==
    [parser EXCEPT !.buffer[parser.byte_count + 1] = byte,
                   !.byte_count = (parser.byte_count + 1) % 256]

\* if (parser->byte_count != 2) { break; }  ... return MIDI_MESSAGE_NONE;
Partial(acc, message) == Result(acc, message, MIDI_MESSAGE_NONE)

\* DataNoteOff changed to fill in the message type and channel as soon as
\* the first data byte arrives.
DataNoteOff_WritesOnFirstByte(parser, byte, message) ==
    LET acc == Accumulate(parser, byte) IN
    IF acc.byte_count # 2
    THEN Partial(acc, [message EXCEPT !.message_type = MIDI_MESSAGE_NOTE_OFF,
                                      !.channel = acc.channel])
    ELSE Result([acc EXCEPT !.byte_count = 0],
                [message_type |-> MIDI_MESSAGE_NOTE_OFF,
                 channel |-> acc.channel,
                 data |-> StoreU8(StoreU8(message.data, 0, acc.buffer[1]), 1, acc.buffer[2])],
                MIDI_MESSAGE_NOTE_OFF)

DataNoteOff(parser, byte, message) ==
    LET acc == Accumulate(parser, byte) IN
    IF acc.byte_count # 2 THEN Partial(acc, message)
    ELSE Result([acc EXCEPT !.byte_count = 0],
                [message_type |-> MIDI_MESSAGE_NOTE_OFF,
                 channel |-> acc.channel,
                 data |-> StoreU8(StoreU8(message.data, 0, acc.buffer[1]), 1, acc.buffer[2])],
                MIDI_MESSAGE_NOTE_OFF)

\* DataNoteOn changed to reclassify the parser's own message type as well.
DataNoteOn_ReclassifiesPending(parser, byte, message) ==
    LET acc == Accumulate(parser, byte) IN
    IF acc.byte_count # 2 THEN Partial(acc, message)
    ELSE LET data == StoreU8(StoreU8(message.data, 0, acc.buffer[1]), 1, acc.buffer[2])
             type == IF LoadU8(data, 1) = 0 THEN MIDI_MESSAGE_NOTE_OFF
                                            ELSE MIDI_MESSAGE_NOTE_ON
         IN Result([acc EXCEPT !.message_type = type, !.byte_count = 0],
                   [message_type |-> type, channel |-> acc.channel, data |-> data],
                   type)

\* DataNoteOn without the reclassification of velocity 0 as Note Off.
DataNoteOn_NoReclassify(parser, byte, message) ==
    LET acc == Accumulate(parser, byte) IN
    IF acc.byte_count # 2 THEN Partial(acc, message)
    ELSE Result([acc EXCEPT !.byte_count = 0],
                [message_type |-> MIDI_MESSAGE_NOTE_ON,
                 channel |-> acc.channel,
                 data |-> StoreU8(StoreU8(message.data, 0, acc.buffer[1]), 1, acc.buffer[2])],
                MIDI_MESSAGE_NOTE_ON)

DataNoteOn(parser, byte, message) ==
    LET acc == Accumulate(parser, byte) IN
    IF acc.byte_count # 2 THEN Partial(acc, message)
    ELSE LET data == StoreU8(StoreU8(message.data, 0, acc.buffer[1]), 1, acc.buffer[2])
             type == IF LoadU8(data, 1) = 0 THEN MIDI_MESSAGE_NOTE_OFF
                                            ELSE MIDI_MESSAGE_NOTE_ON
         IN Result([acc EXCEPT !.byte_count = 0],
                   [message_type |-> type, channel |-> acc.channel, data |-> data],
                   type)

\* DataKeyPressure taking the first data byte as the pressure.
DataKeyPressure_SwapsBytes(parser, byte, message) ==
    LET acc == Accumulate(parser, byte) IN
    IF acc.byte_count # 2 THEN Partial(acc, message)
    ELSE Result([acc EXCEPT !.byte_count = 0],
                [message_type |-> MIDI_MESSAGE_KEY_PRESSURE,
                 channel |-> acc.channel,
                 data |-> StoreU8(StoreU8(message.data, 0, acc.buffer[2]), 1, acc.buffer[1])],
                MIDI_MESSAGE_KEY_PRESSURE)

DataKeyPressure(parser, byte, message) ==
    LET acc == Accumulate(parser, byte) IN
    IF acc.byte_count # 2 THEN Partial(acc, message)
    ELSE Result([acc EXCEPT !.byte_count = 0],
                [message_type |-> MIDI_MESSAGE_KEY_PRESSURE,
                 channel |-> acc.channel,
                 data |-> StoreU8(StoreU8(message.data, 0, acc.buffer[1]), 1, acc.buffer[2])],
                MIDI_MESSAGE_KEY_PRESSURE)

\* DataControlChange returning the pending type instead of
\* message->message_type.
DataControlChange_ReturnsPendingType(parser, byte, message) ==
    LET acc == Accumulate(parser, byte) IN
    IF acc.byte_count # 2 THEN Partial(acc, message)
    ELSE LET data == StoreU8(StoreEnum(message.data, 0, acc.buffer[1]), 4, acc.buffer[2])
             type == IF LoadEnum(data, 0) \in ChannelModeControllers
                     THEN LoadEnum(data, 0)
                     ELSE MIDI_MESSAGE_CONTROL_CHANGE
         IN Result([acc EXCEPT !.byte_count = 0],
                   [message_type |-> type, channel |-> acc.channel, data |-> data],
                   parser.message_type)

\* DataControlChange changed to reclassify the parser's own message type as
\* well when the controller is a channel-mode one.
DataControlChange_ReclassifiesPending(parser, byte, message) ==
    LET acc == Accumulate(parser, byte) IN
    IF acc.byte_count # 2 THEN Partial(acc, message)
    ELSE LET data == StoreU8(StoreEnum(message.data, 0, acc.buffer[1]), 4, acc.buffer[2])
             type == IF LoadEnum(data, 0) \in ChannelModeControllers
                     THEN LoadEnum(data, 0)
                     ELSE MIDI_MESSAGE_CONTROL_CHANGE
         IN Result([acc EXCEPT !.byte_count = 0, !.message_type = type],
                   [message_type |-> type, channel |-> acc.channel, data |-> data],
                   type)

DataControlChange(parser, byte, message) ==
    LET acc == Accumulate(parser, byte) IN
    IF acc.byte_count # 2 THEN Partial(acc, message)
    ELSE LET data == StoreU8(StoreEnum(message.data, 0, acc.buffer[1]), 4, acc.buffer[2])
             type == IF LoadEnum(data, 0) \in ChannelModeControllers
                     THEN LoadEnum(data, 0)
                     ELSE MIDI_MESSAGE_CONTROL_CHANGE
         IN Result([acc EXCEPT !.byte_count = 0],
                   [message_type |-> type, channel |-> acc.channel, data |-> data],
                   type)

\* DataProgramChange changed to clear running status on completion, as the
\* Song Select case does.
DataProgramChange_ClearsStatus(parser, byte, message) ==
    Result([parser EXCEPT !.message_type = MIDI_MESSAGE_NONE, !.byte_count = 0],
           [message_type |-> MIDI_MESSAGE_PROGRAM_CHANGE,
            channel |-> parser.channel,
            data |-> StoreU8(message.data, 0, byte)],
           MIDI_MESSAGE_PROGRAM_CHANGE)

DataProgramChange(parser, byte, message) ==
    Result([parser EXCEPT !.byte_count = 0],
           [message_type |-> MIDI_MESSAGE_PROGRAM_CHANGE,
            channel |-> parser.channel,
            data |-> StoreU8(message.data, 0, byte)],
           MIDI_MESSAGE_PROGRAM_CHANGE)

\* DataChannelPressure taking the pressure from the accumulation buffer
\* without storing the byte in it first.
DataChannelPressure_ReadsBuffer(parser, byte, message) ==
    Result([parser EXCEPT !.byte_count = 0],
           [message_type |-> MIDI_MESSAGE_CHANNEL_PRESSURE,
            channel |-> parser.channel,
            data |-> StoreU8(message.data, 0, parser.buffer[1])],
           MIDI_MESSAGE_CHANNEL_PRESSURE)

DataChannelPressure(parser, byte, message) ==
    Result([parser EXCEPT !.byte_count = 0],
           [message_type |-> MIDI_MESSAGE_CHANNEL_PRESSURE,
            channel |-> parser.channel,
            data |-> StoreU8(message.data, 0, byte)],
           MIDI_MESSAGE_CHANNEL_PRESSURE)

\* DataPitchBend changed to clear running status on completion, as the Song
\* Position Pointer case does.
DataPitchBend_ClearsStatus(parser, byte, message) ==
    LET acc == Accumulate(parser, byte) IN
    IF acc.byte_count # 2 THEN Partial(acc, message)
    ELSE Result([acc EXCEPT !.message_type = MIDI_MESSAGE_NONE, !.byte_count = 0],
                [message_type |-> MIDI_MESSAGE_PITCH_BEND,
                 channel |-> acc.channel,
                 data |-> StoreU16(message.data, 0,
                                   BitOr(Shl(acc.buffer[2], 7), acc.buffer[1]))],
                MIDI_MESSAGE_PITCH_BEND)

DataPitchBend(parser, byte, message) ==
    LET acc == Accumulate(parser, byte) IN
    IF acc.byte_count # 2 THEN Partial(acc, message)
    ELSE Result([acc EXCEPT !.byte_count = 0],
                [message_type |-> MIDI_MESSAGE_PITCH_BEND,
                 channel |-> acc.channel,
                 data |-> StoreU16(message.data, 0,
                                   BitOr(Shl(acc.buffer[2], 7), acc.buffer[1]))],
                MIDI_MESSAGE_PITCH_BEND)

\* DataSysEx changed to count the payload bytes it discards.
DataSysEx_CountsBytes(parser, byte, message) ==
    Result([parser EXCEPT !.byte_count = (parser.byte_count + 1) % 256],
           message, MIDI_MESSAGE_NONE)

DataSysEx(parser, byte, message) ==
    Result(parser, message, MIDI_MESSAGE_NONE)

\* DataMtcQuarterFrame masking the high nibble without shifting it down.
DataMtcQuarterFrame_NoShift(parser, byte, message) ==
    Result([parser EXCEPT !.message_type = MIDI_MESSAGE_NONE, !.byte_count = 0],
           [message_type |-> MIDI_MESSAGE_MTC_QUARTER_FRAME,
            channel |-> MIDI_CHANNEL_NONE,
            data |-> StoreU8(StoreU8(message.data, 0, BitAnd(byte, MIDI_MSN_MASK)), 1,
                             BitAnd(byte, MIDI_LSN_MASK))],
           MIDI_MESSAGE_MTC_QUARTER_FRAME)

DataMtcQuarterFrame(parser, byte, message) ==
    Result([parser EXCEPT !.message_type = MIDI_MESSAGE_NONE, !.byte_count = 0],
           [message_type |-> MIDI_MESSAGE_MTC_QUARTER_FRAME,
            channel |-> MIDI_CHANNEL_NONE,
            data |-> StoreU8(StoreU8(message.data, 0, Shr(byte, 4)), 1,
                             BitAnd(byte, MIDI_LSN_MASK))],
           MIDI_MESSAGE_MTC_QUARTER_FRAME)

\* DataSongPositionPointer without parser->message_type = MIDI_MESSAGE_NONE.
DataSongPositionPointer_KeepsStatus(parser, byte, message) ==
    LET acc == Accumulate(parser, byte) IN
    IF acc.byte_count # 2 THEN Partial(acc, message)
    ELSE Result([acc EXCEPT !.byte_count = 0],
                [message_type |-> MIDI_MESSAGE_SONG_POSITION_POINTER,
                 channel |-> MIDI_CHANNEL_NONE,
                 data |-> StoreU16(message.data, 0,
                                   BitOr(Shl(acc.buffer[2], 7), acc.buffer[1]))],
                MIDI_MESSAGE_SONG_POSITION_POINTER)

\* DataSongPositionPointer taking the first data byte as the high seven bits.
DataSongPositionPointer_SwapsBytes(parser, byte, message) ==
    LET acc == Accumulate(parser, byte) IN
    IF acc.byte_count # 2 THEN Partial(acc, message)
    ELSE Result([acc EXCEPT !.message_type = MIDI_MESSAGE_NONE, !.byte_count = 0],
                [message_type |-> MIDI_MESSAGE_SONG_POSITION_POINTER,
                 channel |-> MIDI_CHANNEL_NONE,
                 data |-> StoreU16(message.data, 0,
                                   BitOr(Shl(acc.buffer[1], 7), acc.buffer[2]))],
                MIDI_MESSAGE_SONG_POSITION_POINTER)

DataSongPositionPointer(parser, byte, message) ==
    LET acc == Accumulate(parser, byte) IN
    IF acc.byte_count # 2 THEN Partial(acc, message)
    ELSE Result([acc EXCEPT !.message_type = MIDI_MESSAGE_NONE, !.byte_count = 0],
                [message_type |-> MIDI_MESSAGE_SONG_POSITION_POINTER,
                 channel |-> MIDI_CHANNEL_NONE,
                 data |-> StoreU16(message.data, 0,
                                   BitOr(Shl(acc.buffer[2], 7), acc.buffer[1]))],
                MIDI_MESSAGE_SONG_POSITION_POINTER)

\* DataSongSelect without parser->message_type = MIDI_MESSAGE_NONE.
DataSongSelect_KeepsStatus(parser, byte, message) ==
    Result([parser EXCEPT !.byte_count = 0],
           [message_type |-> MIDI_MESSAGE_SONG_SELECT,
            channel |-> MIDI_CHANNEL_NONE,
            data |-> StoreU8(message.data, 0, byte)],
           MIDI_MESSAGE_SONG_SELECT)

DataSongSelect(parser, byte, message) ==
    Result([parser EXCEPT !.message_type = MIDI_MESSAGE_NONE, !.byte_count = 0],
           [message_type |-> MIDI_MESSAGE_SONG_SELECT,
            channel |-> MIDI_CHANNEL_NONE,
            data |-> StoreU8(message.data, 0, byte)],
           MIDI_MESSAGE_SONG_SELECT)

\* DataUnexpected changed to buffer the byte as the two-data-byte cases do.
DataUnexpected_BuffersByte(parser, byte, message) ==
    Partial(Accumulate(parser, byte), message)

\* default: unexpected data byte at this time
DataUnexpected(parser, byte, message) ==
    Result(parser, message, MIDI_MESSAGE_NONE)

\* parse_data_byte whose overflow guard returns without
\* parser->byte_count = 0.
parse_data_byte_GuardKeepsCount(parser, byte, message) ==
    IF parser = NULL \/ message = NULL
    THEN Result(parser, message, MIDI_MESSAGE_NONE)
    ELSE IF byte > MIDI_MAX_DATA_BYTE
    THEN Result(parser, message, MIDI_MESSAGE_NONE)
    ELSE IF parser.byte_count >= MIDI_BUFFER_SIZE
    THEN Result(parser, message, MIDI_MESSAGE_NONE)
    ELSE CASE parser.message_type = MIDI_MESSAGE_NOTE_OFF ->
                  DataNoteOff(parser, byte, message)
           [] parser.message_type = MIDI_MESSAGE_NOTE_ON ->
                  DataNoteOn(parser, byte, message)
           [] parser.message_type = MIDI_MESSAGE_KEY_PRESSURE ->
                  DataKeyPressure(parser, byte, message)
           [] parser.message_type = MIDI_MESSAGE_CONTROL_CHANGE ->
                  DataControlChange(parser, byte, message)
           [] parser.message_type = MIDI_MESSAGE_PROGRAM_CHANGE ->
                  DataProgramChange(parser, byte, message)
           [] parser.message_type = MIDI_MESSAGE_CHANNEL_PRESSURE ->
                  DataChannelPressure(parser, byte, message)
           [] parser.message_type = MIDI_MESSAGE_PITCH_BEND ->
                  DataPitchBend(parser, byte, message)
           [] parser.message_type = MIDI_MESSAGE_SYSTEM_EXCLUSIVE ->
                  DataSysEx(parser, byte, message)
           [] parser.message_type = MIDI_MESSAGE_MTC_QUARTER_FRAME ->
                  DataMtcQuarterFrame(parser, byte, message)
           [] parser.message_type = MIDI_MESSAGE_SONG_POSITION_POINTER ->
                  DataSongPositionPointer(parser, byte, message)
           [] parser.message_type = MIDI_MESSAGE_SONG_SELECT ->
                  DataSongSelect(parser, byte, message)
           [] OTHER -> DataUnexpected(parser, byte, message)

parse_data_byte(parser, byte, message) ==
    IF parser = NULL \/ message = NULL
    THEN Result(parser, message, MIDI_MESSAGE_NONE)
    ELSE IF byte > MIDI_MAX_DATA_BYTE
    THEN Result(parser, message, MIDI_MESSAGE_NONE)
    ELSE IF parser.byte_count >= MIDI_BUFFER_SIZE
    THEN Result([parser EXCEPT !.byte_count = 0], message, MIDI_MESSAGE_NONE)
    ELSE CASE parser.message_type = MIDI_MESSAGE_NOTE_OFF ->
                  DataNoteOff(parser, byte, message)
           [] parser.message_type = MIDI_MESSAGE_NOTE_ON ->
                  DataNoteOn(parser, byte, message)
           [] parser.message_type = MIDI_MESSAGE_KEY_PRESSURE ->
                  DataKeyPressure(parser, byte, message)
           [] parser.message_type = MIDI_MESSAGE_CONTROL_CHANGE ->
                  DataControlChange(parser, byte, message)
           [] parser.message_type = MIDI_MESSAGE_PROGRAM_CHANGE ->
                  DataProgramChange(parser, byte, message)
           [] parser.message_type = MIDI_MESSAGE_CHANNEL_PRESSURE ->
                  DataChannelPressure(parser, byte, message)
           [] parser.message_type = MIDI_MESSAGE_PITCH_BEND ->
                  DataPitchBend(parser, byte, message)
           [] parser.message_type = MIDI_MESSAGE_SYSTEM_EXCLUSIVE ->
                  DataSysEx(parser, byte, message)
           [] parser.message_type = MIDI_MESSAGE_MTC_QUARTER_FRAME ->
                  DataMtcQuarterFrame(parser, byte, message)
           [] parser.message_type = MIDI_MESSAGE_SONG_POSITION_POINTER ->
                  DataSongPositionPointer(parser, byte, message)
           [] parser.message_type = MIDI_MESSAGE_SONG_SELECT ->
                  DataSongSelect(parser, byte, message)
           [] OTHER -> DataUnexpected(parser, byte, message)

(***************************************************************************)
(* midi_parse_byte                                                         *)
(***************************************************************************)
\* midi_parse_byte that checks parser only, and drops the accumulation when
\* the message is missing.
midi_parse_byte_DropsAccumulation(parser, byte, message) ==
    IF parser = NULL
    THEN Result(parser, message, MIDI_MESSAGE_NONE)
    ELSE IF message = NULL
    THEN Result([parser EXCEPT !.byte_count = 0], message, MIDI_MESSAGE_NONE)
    ELSE IF BitAnd(byte, MIDI_MSB_MASK) # 0
    THEN parse_status_byte(parser, byte, message)
    ELSE parse_data_byte(parser, byte, message)

midi_parse_byte(parser, byte, message) ==
    IF parser = NULL \/ message = NULL
    THEN Result(parser, message, MIDI_MESSAGE_NONE)
    ELSE IF BitAnd(byte, MIDI_MSB_MASK) # 0
    THEN parse_status_byte(parser, byte, message)
    ELSE parse_data_byte(parser, byte, message)

(***************************************************************************)
(* Running a byte stream through one parser                                *)
(***************************************************************************)
\* The call sequence r = midi_parse_byte(&parser, b, &message) over a
\* sequence of bytes, starting from the state and the message held in r0.
RECURSIVE Feed(_, _)
Feed(r0, bytes) ==
    IF bytes = <<>> THEN r0
    ELSE Feed(midi_parse_byte(r0.parser, Head(bytes), r0.message), Tail(bytes))

(***************************************************************************)
(* Bounds of the byte alphabet of the caller                               *)
(***************************************************************************)
NChan == 1
NData == 2

\* The channels the caller addresses: the NChan highest ones.
Chans == {c \in 0..15 : c > 15 - NChan}
\* The data bytes the caller sends: the NData - 1 lowest ones and 127.
DataBytes == {d \in 0..MIDI_MAX_DATA_BYTE : d < NData - 1 \/ d = MIDI_MAX_DATA_BYTE}
\* Every system status byte, and the channel voice status bytes of Chans.
StatusBytes ==
    {s \in 128..255 : s >= MIDI_MESSAGE_SYSTEM_EXCLUSIVE
                      \/ BitAnd(s, MIDI_CHANNEL_MASK) \in Chans}
Bytes == DataBytes \cup StatusBytes

AllDataBytes == 0..MIDI_MAX_DATA_BYTE
UndefinedStatusBytes == {244, 245, 249, 253}

(***************************************************************************)
(* State                                                                   *)
(***************************************************************************)
VARIABLES
    parser,     \* the caller's midi_parser_t
    message,    \* the caller's midi_message_t
    ret,        \* the value returned by the latest midi_parse_byte call
    shadow,     \* a second parser instance with its own message and result
    script,     \* the bytes of a fixed input stream
    pos,        \* how many bytes of script have been parsed
    last        \* the latest call, in the specifications that record it

vars == <<parser, message, ret, shadow, script, pos, last>>

NoShadow == [parser |-> NULL, message |-> NULL, ret |-> MIDI_MESSAGE_NONE]
\* last: whether the latest call parsed an inserted byte, and that byte.
NoCall == [inserted |-> FALSE, byte |-> 0]

\* setUp() of the tests: an initialized parser and a zeroed message.
InitCaller ==
    /\ parser = midi_parser_init(InitialParser)
    /\ message = ZeroMessage
    /\ ret = MIDI_MESSAGE_NONE

(***************************************************************************)
(* Spec: one parser fed any stream over Bytes, reset at any time           *)
(***************************************************************************)
Init ==
    /\ InitCaller
    /\ shadow = NoShadow
    /\ script = <<>>
    /\ pos = 0
    /\ last = NoCall

ParseByte(b) ==
    \E r \in {midi_parse_byte(parser, b, message)} :
    /\ parser' = r.parser
    /\ message' = r.message
    /\ ret' = r.ret
    /\ UNCHANGED <<shadow, script, pos, last>>

Reset ==
    /\ parser' = midi_parser_reset(parser)
    /\ UNCHANGED <<message, ret, shadow, script, pos, last>>

Next ==
    \/ \E b \in Bytes : ParseByte(b)
    \/ Reset

Spec == Init /\ [][Next]_vars

(***************************************************************************)
(* SpecRT: a stream S fed to parser, and the same stream with System       *)
(* Real-Time bytes inserted at any positions fed to shadow.parser          *)
(***************************************************************************)
\* The bytes of S: the note number of the interruption tests and the zero
\* data byte, every channel voice status byte on the channel of those tests,
\* and every status byte 0xF0..0xFF that is not a real-time byte.  S itself
\* carries no real-time byte: a stream that does is a real-time-free stream
\* with insertions, so its real-time bytes are those of InsertRealTime.
TEST_NOTE == 60
StreamBytes ==
    {0, TEST_NOTE}
    \cup {s \in 128..255 :
             \/ s >= MIDI_MESSAGE_SYSTEM_EXCLUSIVE /\ s \notin SystemRealTimeTypes
             \/ s < MIDI_MESSAGE_SYSTEM_EXCLUSIVE
                /\ BitAnd(s, MIDI_CHANNEL_MASK) = MIDI_CHANNEL_1}

InitRT ==
    /\ InitCaller
    /\ shadow = Result(midi_parser_init(InitialParser), ZeroMessage, MIDI_MESSAGE_NONE)
    /\ script = <<>>
    /\ pos = 0
    /\ last = NoCall

\* The next byte of S: both instances parse it.
FeedBoth(b) ==
    \E r \in {midi_parse_byte(parser, b, message)},
       q \in {midi_parse_byte(shadow.parser, b, shadow.message)} :
    /\ parser' = r.parser
    /\ message' = r.message
    /\ ret' = r.ret
    /\ shadow' = q
    /\ last' = NoCall
    /\ UNCHANGED <<script, pos>>

\* A real-time byte inserted into S': only the shadow instance parses it.
InsertRealTime(b) ==
    \E q \in {midi_parse_byte(shadow.parser, b, shadow.message)} :
    /\ shadow' = q
    /\ last' = [inserted |-> TRUE, byte |-> b]
    /\ UNCHANGED <<parser, message, ret, script, pos>>

NextRT ==
    \/ \E b \in StreamBytes : FeedBoth(b)
    \/ \E b \in SystemRealTimeTypes : InsertRealTime(b)

SpecRT == InitRT /\ [][NextRT]_vars

(***************************************************************************)
(* Scripted streams: an initialized parser fed the bytes of script in order *)
(***************************************************************************)
ParseScript ==
    /\ pos < Len(script)
    /\ \E r \in {midi_parse_byte(parser, script[pos + 1], message)} :
           /\ parser' = r.parser
           /\ message' = r.message
           /\ ret' = r.ret
    /\ pos' = pos + 1
    /\ UNCHANGED <<shadow, script, last>>

InitScript ==
    /\ InitCaller
    /\ shadow = NoShadow
    /\ pos = 0
    /\ last = NoCall

AllChannels == 0..MIDI_CHANNEL_MASK

\* SpecNoteOn: every Note On message, as test_note_on_message sends them.
InitNoteOn ==
    /\ InitScript
    /\ \E c \in AllChannels, n \in AllDataBytes, v \in AllDataBytes :
           script = <<MIDI_MESSAGE_NOTE_ON + c, n, v>>

SpecNoteOn == InitNoteOn /\ [][ParseScript]_vars

\* SpecControlChange: every Control Change message, as
\* test_control_change_message and test_channel_mode_messages send them.
InitControlChange ==
    /\ InitScript
    /\ \E c \in AllChannels, k \in AllDataBytes, v \in AllDataBytes :
           script = <<MIDI_MESSAGE_CONTROL_CHANGE + c, k, v>>

SpecControlChange == InitControlChange /\ [][ParseScript]_vars

(***************************************************************************)
(* Claims                                                                  *)
(***************************************************************************)

\* C1: in every reachable state, each of the six System Real-Time bytes is
\* returned as its own kind with message.channel = MIDI_CHANNEL_NONE and
\* leaves every field of the parser (pending type, pending channel, active
\* channel, both buffer bytes, byte count) as it was.
C1_RealTimeLeavesParser ==
    \A b \in SystemRealTimeTypes :
        \A r \in {midi_parse_byte(parser, b, message)} :
            /\ r.ret = b
            /\ r.message.channel = MIDI_CHANNEL_NONE
            /\ r.parser = parser

\* A real-time byte has just been returned while the first data byte of a
\* two-byte message is held in the buffer.
C1_Witness ==
    /\ ret \in SystemRealTimeTypes
    /\ message.message_type = ret
    /\ parser.byte_count = 1

\* C2: with S fed to parser and S plus inserted real-time bytes fed to
\* shadow.parser, the two parser states are equal after every byte; every
\* byte of S returns the same kind from both, with equal messages (kind,
\* channel, payload) when a message completes; and every inserted real-time
\* byte is reported on its own by the call that consumes it.
C2_RealTimeTransparent ==
    /\ shadow.parser = parser
    /\ last.inserted =>
           /\ shadow.ret = last.byte
           /\ shadow.message.message_type = last.byte
           /\ shadow.message.channel = MIDI_CHANNEL_NONE
    /\ ~last.inserted =>
           /\ shadow.ret = ret
           /\ ret # MIDI_MESSAGE_NONE => shadow.message = message

\* A real-time byte has been inserted between the two data bytes of a
\* message of S.
C2_Witness ==
    /\ last.inserted
    /\ shadow.ret \in SystemRealTimeTypes
    /\ parser.byte_count = 1
    /\ shadow.parser.byte_count = 1

\* C3: for every channel c, note n and velocity v, the bytes 0x90|c, n, v
\* return None, None and then Note On when v > 0 or Note Off when v = 0; the
\* returned kind is message.message_type, and the message carries channel c,
\* note n and velocity v.
C3_NoteOnDecodes ==
    LET c == script[1] - MIDI_MESSAGE_NOTE_ON
        n == script[2]
        v == script[3]
    IN /\ pos \in {1, 2} => ret = MIDI_MESSAGE_NONE
       /\ pos = 3 =>
              /\ ret = (IF v > 0 THEN MIDI_MESSAGE_NOTE_ON ELSE MIDI_MESSAGE_NOTE_OFF)
              /\ message.message_type = ret
              /\ message.channel = c
              /\ note(message) = n
              /\ velocity(message) = v

\* A Note On on channel 16 with velocity 0 has been reported as Note Off.
C3_Witness ==
    /\ pos = 3
    /\ script[1] = MIDI_MESSAGE_NOTE_ON + 15
    /\ script[3] = 0
    /\ ret = MIDI_MESSAGE_NOTE_OFF
    /\ message.channel = 15
    /\ note(message) = script[2]

\* The dedicated channel-mode kind of a controller number 120..127.
ChannelModeKind(k) ==
    CASE k = 120 -> MIDI_MESSAGE_ALL_SOUND_OFF
      [] k = 121 -> MIDI_MESSAGE_RESET_ALL_CONTROLLERS
      [] k = 122 -> MIDI_MESSAGE_LOCAL_CONTROL
      [] k = 123 -> MIDI_MESSAGE_ALL_NOTES_OFF
      [] k = 124 -> MIDI_MESSAGE_OMNI_OFF
      [] k = 125 -> MIDI_MESSAGE_OMNI_ON
      [] k = 126 -> MIDI_MESSAGE_MONO_ON
      [] k = 127 -> MIDI_MESSAGE_POLY_ON

\* C5: for every channel c and value v, a Control Change with controller
\* number k in 120..127 completes with the returned kind and
\* message.message_type equal to the channel-mode kind of k, one with k in
\* 0..119 as plain Control Change; either way the message carries channel c,
\* controller k and control value v.
C5_ChannelModeReclassified ==
    LET c == script[1] - MIDI_MESSAGE_CONTROL_CHANGE
        k == script[2]
        v == script[3]
    IN pos = 3 =>
           /\ ret = (IF k \in 120..127 THEN ChannelModeKind(k)
                                       ELSE MIDI_MESSAGE_CONTROL_CHANGE)
           /\ message.message_type = ret
           /\ message.channel = c
           /\ controller(message) = k
           /\ control_value(message) = v

\* Controller 127 on channel 16 has been reported as Poly On.
C5_Witness ==
    /\ pos = 3
    /\ script[1] = MIDI_MESSAGE_CONTROL_CHANGE + 15
    /\ script[2] = 127
    /\ ret = MIDI_MESSAGE_POLY_ON
    /\ message.message_type = MIDI_MESSAGE_POLY_ON
    /\ message.channel = 15
    /\ control_value(message) = script[3]

\* The state of the caller as the result of its latest call.
Now == Result(parser, message, ret)

\* The channel voice types that take two data bytes.
TwoByteVoiceTypes ==
    {MIDI_MESSAGE_NOTE_OFF, MIDI_MESSAGE_NOTE_ON, MIDI_MESSAGE_KEY_PRESSURE,
     MIDI_MESSAGE_CONTROL_CHANGE, MIDI_MESSAGE_PITCH_BEND}

\* The kind under which a completed message of pending type K with data
\* bytes d1, d2 is reported.
ReportedKind(K, d1, d2) ==
    CASE K = MIDI_MESSAGE_NOTE_ON ->
             IF d2 = 0 THEN MIDI_MESSAGE_NOTE_OFF ELSE MIDI_MESSAGE_NOTE_ON
      [] K = MIDI_MESSAGE_CONTROL_CHANGE ->
             IF d1 \in 120..127 THEN ChannelModeKind(d1) ELSE MIDI_MESSAGE_CONTROL_CHANGE
      [] OTHER -> K

\* C4: a status byte of a two-data-byte channel voice type K on channel c
\* leaves the parser pending on (K, c) with count 0; and in every reachable
\* state pending on such a (K, c) with count 0, the next two data bytes return
\* None and then the kind of K (Note On and Control Change as reclassified) on
\* channel c, and leave the parser pending on (K, c) with count 0 again, so
\* that every further pair completes one more message with no status byte.
C4_RunningStatus ==
    /\ \A s \in StatusBytes :
           BitAnd(s, MIDI_MSN_MASK) \in TwoByteVoiceTypes =>
               \A r \in {midi_parse_byte(parser, s, message)} :
                   /\ r.ret = MIDI_MESSAGE_NONE
                   /\ r.parser.message_type = BitAnd(s, MIDI_MSN_MASK)
                   /\ r.parser.channel = s % 16
                   /\ r.parser.byte_count = 0
    /\ (parser.message_type \in TwoByteVoiceTypes /\ parser.byte_count = 0) =>
           \A d1 \in DataBytes, d2 \in DataBytes :
               \A r1 \in {midi_parse_byte(parser, d1, message)} :
                   \A r2 \in {midi_parse_byte(r1.parser, d2, r1.message)} :
                       /\ r1.ret = MIDI_MESSAGE_NONE
                       /\ r2.ret = ReportedKind(parser.message_type, d1, d2)
                       /\ r2.message.message_type = r2.ret
                       /\ r2.message.channel = parser.channel
                       /\ r2.parser.message_type = parser.message_type
                       /\ r2.parser.channel = parser.channel
                       /\ r2.parser.byte_count = 0

\* A Pitch Bend has just completed, and the next two data bytes, sent with no
\* status byte, complete another one.
C4_Witness ==
    /\ ret = MIDI_MESSAGE_PITCH_BEND
    /\ parser.message_type = MIDI_MESSAGE_PITCH_BEND
    /\ parser.byte_count = 0
    /\ \E r \in {Feed(Now, <<0, 127>>)} :
           /\ r.ret = MIDI_MESSAGE_PITCH_BEND
           /\ pitch_bend(r.message) = 16256
           /\ r.message.channel = parser.channel

\* C6: in every reachable state pending on Note On with count 0, a pair with
\* velocity 0 is reported as Note Off and leaves the pending type Note On; in
\* every reachable state pending on Control Change with count 0, a pair with
\* controller 120..127 is reported as its channel-mode kind and leaves the
\* pending type Control Change; in both cases the next pair is decoded as
\* Note On / Control Change again, on the same channel.
C6_ReclassificationKeepsStatus ==
    /\ (parser.message_type = MIDI_MESSAGE_NOTE_ON /\ parser.byte_count = 0) =>
           \A n \in DataBytes :
               \A r \in {Feed(Now, <<n, 0>>)} :
                   /\ r.ret = MIDI_MESSAGE_NOTE_OFF
                   /\ r.message.message_type = MIDI_MESSAGE_NOTE_OFF
                   /\ r.parser.message_type = MIDI_MESSAGE_NOTE_ON
                   /\ r.parser.channel = parser.channel
                   /\ \A d1 \in DataBytes, d2 \in DataBytes :
                          \A q \in {Feed(r, <<d1, d2>>)} :
                              /\ q.ret = ReportedKind(MIDI_MESSAGE_NOTE_ON, d1, d2)
                              /\ q.message.channel = parser.channel
                              /\ note(q.message) = d1
                              /\ velocity(q.message) = d2
    /\ (parser.message_type = MIDI_MESSAGE_CONTROL_CHANGE /\ parser.byte_count = 0) =>
           \A k \in ChannelModeControllers, v \in DataBytes :
               \A r \in {Feed(Now, <<k, v>>)} :
                   /\ r.ret = ChannelModeKind(k)
                   /\ r.message.message_type = ChannelModeKind(k)
                   /\ r.parser.message_type = MIDI_MESSAGE_CONTROL_CHANGE
                   /\ r.parser.channel = parser.channel
                   /\ \A d1 \in DataBytes, d2 \in DataBytes :
                          \A q \in {Feed(r, <<d1, d2>>)} :
                              /\ q.ret = ReportedKind(MIDI_MESSAGE_CONTROL_CHANGE, d1, d2)
                              /\ q.message.channel = parser.channel
                              /\ controller(q.message) = d1
                              /\ control_value(q.message) = d2

\* A Note On with velocity 0 has just been reported as Note Off, and the
\* parser is still pending on Note On.
C6_Witness ==
    /\ ret = MIDI_MESSAGE_NOTE_OFF
    /\ message.message_type = MIDI_MESSAGE_NOTE_OFF
    /\ velocity(message) = 0
    /\ parser.message_type = MIDI_MESSAGE_NOTE_ON
    /\ parser.byte_count = 0
    /\ message.channel = parser.channel

\* The payload members that belong to the kind of a completed message.
Payload(m) ==
    CASE m.message_type \in {MIDI_MESSAGE_NOTE_OFF, MIDI_MESSAGE_NOTE_ON} ->
             <<note(m), velocity(m)>>
      [] m.message_type = MIDI_MESSAGE_KEY_PRESSURE -> <<key(m), key_pressure(m)>>
      [] m.message_type = MIDI_MESSAGE_CONTROL_CHANGE
         \/ m.message_type \in ChannelModeControllers ->
             <<controller(m), control_value(m)>>
      [] m.message_type = MIDI_MESSAGE_PROGRAM_CHANGE -> <<program(m)>>
      [] m.message_type = MIDI_MESSAGE_CHANNEL_PRESSURE -> <<channel_pressure(m)>>
      [] m.message_type = MIDI_MESSAGE_PITCH_BEND -> <<pitch_bend(m)>>
      [] m.message_type = MIDI_MESSAGE_SONG_POSITION_POINTER -> <<song_position(m)>>
      [] m.message_type = MIDI_MESSAGE_SONG_SELECT -> <<song_select(m)>>
      [] m.message_type = MIDI_MESSAGE_MTC_QUARTER_FRAME ->
             <<mtc_msg_type(m), mtc_values(m)>>
      [] OTHER -> <<>>

\* What the caller learns from one call: nothing, or the completed message.
Report(r) ==
    IF r.ret = MIDI_MESSAGE_NONE THEN <<MIDI_MESSAGE_NONE>>
    ELSE <<r.ret, r.message.message_type, r.message.channel, Payload(r.message)>>

\* A newly set-up caller: initialized parser, zeroed message.
Fresh == Result(midi_parser_init(InitialParser), ZeroMessage, MIDI_MESSAGE_NONE)

\* The status bytes that start a new message or clear running status:
\* channel voice, SysEx start and system common.
AbandoningStatusBytes ==
    {s \in StatusBytes : s \notin SystemRealTimeTypes /\ s \notin UndefinedStatusBytes}

\* The pending type such a status byte leaves behind.
NewPendingType(s) ==
    IF s < MIDI_MESSAGE_SYSTEM_EXCLUSIVE THEN BitAnd(s, MIDI_MSN_MASK)
    ELSE IF s \in SystemCommonNoDataTypes THEN MIDI_MESSAGE_NONE
    ELSE s

\* C7: in every reachable state that holds the first data byte of a
\* two-data-byte message (count = 1), a channel voice, SysEx-start or system
\* common status byte s replaces the pending type, sets the count to 0 and
\* reports nothing of the partial message; and s followed by any two data
\* bytes reports, call by call, exactly what a newly initialized parser
\* reports for the same bytes, so the abandoned data byte is in no payload.
C7_AbandonedByNewStatus ==
    parser.byte_count = 1 =>
        \A s \in AbandoningStatusBytes :
            \A r0 \in {midi_parse_byte(parser, s, message)},
               f0 \in {midi_parse_byte(Fresh.parser, s, Fresh.message)} :
                /\ r0.parser.message_type = NewPendingType(s)
                /\ r0.parser.byte_count = 0
                /\ r0.ret \in {MIDI_MESSAGE_NONE, s}
                /\ Report(r0) = Report(f0)
                /\ \A d1 \in DataBytes, d2 \in DataBytes :
                       \A r1 \in {midi_parse_byte(r0.parser, d1, r0.message)},
                          f1 \in {midi_parse_byte(f0.parser, d1, f0.message)} :
                           /\ Report(r1) = Report(f1)
                           /\ Report(midi_parse_byte(r1.parser, d2, r1.message))
                                  = Report(midi_parse_byte(f1.parser, d2, f1.message))

\* The first data byte (0) of a Note On is held in the buffer; a Program
\* Change status byte and one data byte then report program 127, and a Note
\* On status byte and two data bytes report note 127.
C7_Witness ==
    /\ parser.message_type = MIDI_MESSAGE_NOTE_ON
    /\ parser.byte_count = 1
    /\ parser.buffer[1] = 0
    /\ \E r \in {Feed(Now, <<MIDI_MESSAGE_PROGRAM_CHANGE + 15, 127>>)} :
           /\ r.ret = MIDI_MESSAGE_PROGRAM_CHANGE
           /\ program(r.message) = 127
    /\ \E r \in {Feed(Now, <<MIDI_MESSAGE_NOTE_ON + 15, 127, 127>>)} :
           /\ r.ret = MIDI_MESSAGE_NOTE_ON
           /\ note(r.message) = 127

\* C8: in every reachable state 0xF0 returns SysEx-Start with
\* message.channel = None and leaves the parser pending on SysEx with count
\* 0; and in every reachable state pending on SysEx the count is 0, every
\* data byte 0..127 returns None and leaves the pending type SysEx and the
\* count 0, and so do the real-time and the undefined status bytes.
C8_SysExOpaque ==
    /\ \A r \in {midi_parse_byte(parser, MIDI_MESSAGE_SYSTEM_EXCLUSIVE, message)} :
           /\ r.ret = MIDI_MESSAGE_SYSTEM_EXCLUSIVE
           /\ r.message.channel = MIDI_CHANNEL_NONE
           /\ r.parser.message_type = MIDI_MESSAGE_SYSTEM_EXCLUSIVE
           /\ r.parser.byte_count = 0
    /\ parser.message_type = MIDI_MESSAGE_SYSTEM_EXCLUSIVE =>
           /\ parser.byte_count = 0
           /\ \A d \in AllDataBytes :
                  \A r \in {midi_parse_byte(parser, d, message)} :
                      /\ r.ret = MIDI_MESSAGE_NONE
                      /\ r.parser.message_type = MIDI_MESSAGE_SYSTEM_EXCLUSIVE
                      /\ r.parser.byte_count = 0
           /\ \A b \in SystemRealTimeTypes \cup UndefinedStatusBytes :
                  \A r \in {midi_parse_byte(parser, b, message)} :
                      /\ r.parser.message_type = MIDI_MESSAGE_SYSTEM_EXCLUSIVE
                      /\ r.parser.byte_count = 0

\* A SysEx-Start has been reported and a later byte has been absorbed with
\* the parser still pending on SysEx; the buffer holds a data byte of an
\* earlier message.
C8_Witness ==
    /\ parser.message_type = MIDI_MESSAGE_SYSTEM_EXCLUSIVE
    /\ message.message_type = MIDI_MESSAGE_SYSTEM_EXCLUSIVE
    /\ message.channel = MIDI_CHANNEL_NONE
    /\ ret = MIDI_MESSAGE_NONE
    /\ parser.byte_count = 0
    /\ parser.buffer[1] = 127

\* C9: in every reachable state Tune Request (0xF6) and End of Exclusive
\* (0xF7) return their own kind with message.channel = None and leave the
\* parser with pending type None, pending channel None and count 0; and in
\* every reachable state with pending type None every data byte 0..127
\* returns None and leaves the parser as it was.
C9_TuneRequestAndEoxClearStatus ==
    /\ \A b \in SystemCommonNoDataTypes :
           \A r \in {midi_parse_byte(parser, b, message)} :
               /\ r.ret = b
               /\ r.message.channel = MIDI_CHANNEL_NONE
               /\ r.parser.message_type = MIDI_MESSAGE_NONE
               /\ r.parser.channel = MIDI_CHANNEL_NONE
               /\ r.parser.byte_count = 0
    /\ parser.message_type = MIDI_MESSAGE_NONE =>
           \A d \in AllDataBytes :
               \A r \in {midi_parse_byte(parser, d, message)} :
                   /\ r.ret = MIDI_MESSAGE_NONE
                   /\ r.parser = parser

\* A Tune Request has just been returned after data bytes of an earlier
\* message were buffered, and running status is cleared.
C9_Witness ==
    /\ ret = MIDI_MESSAGE_TUNE_REQUEST
    /\ message.message_type = MIDI_MESSAGE_TUNE_REQUEST
    /\ message.channel = MIDI_CHANNEL_NONE
    /\ parser.message_type = MIDI_MESSAGE_NONE
    /\ parser.channel = MIDI_CHANNEL_NONE
    /\ parser.byte_count = 0
    /\ parser.buffer[1] = 127

\* C10: in every reachable state each undefined status byte (0xF4, 0xF5,
\* 0xF9, 0xFD) returns None and leaves the parser and the message as they
\* were, and the data byte that follows it is parsed as it would have been
\* without it; a Note On that holds its first data byte still completes with
\* that byte as its note.
C10_UndefinedStatusIgnored ==
    \A u \in UndefinedStatusBytes :
        \A r \in {midi_parse_byte(parser, u, message)} :
            /\ r.ret = MIDI_MESSAGE_NONE
            /\ r.parser = parser
            /\ r.message = message
            /\ \A d \in DataBytes :
                   \A q \in {midi_parse_byte(r.parser, d, r.message)} :
                       /\ q = midi_parse_byte(parser, d, message)
                       /\ (parser.message_type = MIDI_MESSAGE_NOTE_ON
                           /\ parser.byte_count = 1) =>
                              /\ q.ret \in {MIDI_MESSAGE_NOTE_ON, MIDI_MESSAGE_NOTE_OFF}
                              /\ q.message.channel = parser.channel
                              /\ note(q.message) = parser.buffer[1]
                              /\ velocity(q.message) = d

\* A Note On holds its first data byte (127); an undefined status byte and
\* then the velocity complete it with note 127.
C10_Witness ==
    /\ parser.message_type = MIDI_MESSAGE_NOTE_ON
    /\ parser.byte_count = 1
    /\ parser.buffer[1] = 127
    /\ \E r \in {Feed(Now, <<245, 127>>)} :
           /\ r.ret = MIDI_MESSAGE_NOTE_ON
           /\ note(r.message) = 127
           /\ velocity(r.message) = 127
           /\ r.message.channel = parser.channel

\* The status bytes that are not System Real-Time bytes.
NonRealTimeStatusBytes == {s \in StatusBytes : s \notin SystemRealTimeTypes}

\* The pending types that complete on one data byte.
OneByteTypes ==
    {MIDI_MESSAGE_PROGRAM_CHANGE, MIDI_MESSAGE_CHANNEL_PRESSURE,
     MIDI_MESSAGE_MTC_QUARTER_FRAME, MIDI_MESSAGE_SONG_SELECT}

\* C11 as stated: in every reachable state that holds the first data byte of
\* a message (count = 1), every status byte that is not a System Real-Time
\* byte, the undefined ones included, sets the count to 0, and the data byte
\* that follows does not complete the message that was pending.
C11_AnyNonRealTimeStatusAbandons ==
    parser.byte_count = 1 =>
        \A s \in NonRealTimeStatusBytes :
            \A r0 \in {midi_parse_byte(parser, s, message)} :
                /\ r0.parser.byte_count = 0
                /\ \A d \in DataBytes :
                       \A r1 \in {midi_parse_byte(r0.parser, d, r0.message)} :
                           r1.ret # MIDI_MESSAGE_NONE =>
                               /\ r1.ret = NewPendingType(s)
                               /\ r1.ret \in OneByteTypes

\* C11 amended: in every reachable state that holds the first data byte of a
\* message (count = 1), a channel voice, SysEx-start or system common status
\* byte sets the pending type it announces and the count 0, and the data byte
\* that follows completes nothing but a one-data-byte message of the new
\* type; an undefined status byte (0xF4, 0xF5, 0xF9, 0xFD) leaves the
\* pending type, the channel, the buffer and the count as they were, and the
\* data byte that follows completes the pending message on its channel.
C11_DefinedNonRealTimeStatusAbandons ==
    parser.byte_count = 1 =>
        /\ \A s \in AbandoningStatusBytes :
               \A r0 \in {midi_parse_byte(parser, s, message)} :
                   /\ r0.parser.message_type = NewPendingType(s)
                   /\ r0.parser.byte_count = 0
                   /\ \A d \in DataBytes :
                          \A r1 \in {midi_parse_byte(r0.parser, d, r0.message)} :
                              r1.ret # MIDI_MESSAGE_NONE =>
                                  /\ r1.ret = NewPendingType(s)
                                  /\ r1.ret \in OneByteTypes
        /\ \A u \in UndefinedStatusBytes :
               \A r0 \in {midi_parse_byte(parser, u, message)} :
                   /\ r0.parser.message_type = parser.message_type
                   /\ r0.parser.channel = parser.channel
                   /\ r0.parser.buffer = parser.buffer
                   /\ r0.parser.byte_count = 1
                   /\ \A d \in DataBytes :
                          \A r1 \in {midi_parse_byte(r0.parser, d, r0.message)} :
                              /\ r1.ret # MIDI_MESSAGE_NONE
                              /\ r1.message.channel = parser.channel
                              /\ r1.parser.byte_count = 0

\* A Note On holds its first data byte: SysEx-start and then a data byte
\* report no Note On, an undefined status byte and then a data byte do.
C11_Witness ==
    /\ parser.message_type = MIDI_MESSAGE_NOTE_ON
    /\ parser.byte_count = 1
    /\ \E r \in {Feed(Now, <<MIDI_MESSAGE_SYSTEM_EXCLUSIVE, 127>>)} :
           /\ r.ret = MIDI_MESSAGE_NONE
           /\ r.parser.message_type = MIDI_MESSAGE_SYSTEM_EXCLUSIVE
    /\ \E r \in {Feed(Now, <<253, 127>>)} :
           /\ r.ret = MIDI_MESSAGE_NOTE_ON
           /\ velocity(r.message) = 127

\* C12: in every reachable state, a call of midi_parse_byte with any byte of
\* the alphabet that returns a kind other than None leaves
\* message.message_type equal to the returned kind, and a call that returns
\* None leaves the message as it was, so one byte reports one message or
\* none; the same holds of the result of the call that led to the state.
C12_ReturnedKindIsMessageKind ==
    /\ ret # MIDI_MESSAGE_NONE => message.message_type = ret
    /\ \A b \in Bytes :
           \A r \in {midi_parse_byte(parser, b, message)} :
               IF r.ret # MIDI_MESSAGE_NONE
               THEN r.message.message_type = r.ret
               ELSE r.message = message

\* A Control Change with controller 127 has just been returned under its
\* reclassified kind, Poly On, which is also the kind in the message.
C12_Witness ==
    /\ ret = MIDI_MESSAGE_POLY_ON
    /\ message.message_type = MIDI_MESSAGE_POLY_ON
    /\ controller(message) = MIDI_CC_POLY_ON
    /\ parser.message_type = MIDI_MESSAGE_CONTROL_CHANGE
    /\ parser.byte_count = 0

\* Parser records as midi_parser_init may find them: a parser declared and
\* not yet initialized, or one whose active channel has been selected.
UninitializedParsers ==
    [message_type : {MIDI_MESSAGE_SYSTEM_EXCLUSIVE, 255},
     channel : {MIDI_CHANNEL_1, MIDI_CHANNEL_NONE},
     active_channel : {MIDI_CHANNEL_1, MIDI_CHANNEL_NONE},
     buffer : {<<MIDI_MAX_DATA_BYTE, 255>>},
     byte_count : {MIDI_BUFFER_SIZE, 255}]

\* The parser is as midi_parser_init leaves it.
IsInitial(p) ==
    /\ p.message_type = MIDI_MESSAGE_NONE
    /\ p.channel = MIDI_CHANNEL_NONE
    /\ p.active_channel = MIDI_CHANNEL_NONE
    /\ p.buffer[1] = 0
    /\ p.buffer[2] = 0
    /\ p.byte_count = 0

\* C13: midi_parser_reset called in any reachable state, and
\* midi_parser_init and midi_parser_reset called on any parser record
\* (uninitialized, or with an active channel selected), leave the pending
\* type None, the pending channel None, the active channel None, both
\* buffer bytes 0 and the count 0.
C13_InitAndResetClearParser ==
    /\ IsInitial(midi_parser_reset(parser))
    /\ IsInitial(midi_parser_init(parser))
    /\ \A g \in UninitializedParsers :
           /\ IsInitial(midi_parser_init(g))
           /\ IsInitial(midi_parser_reset(g))

\* A parser that holds the first data byte (127) of a message, and a parser
\* pending on SysEx, are reachable, and reset discards both.
C13_Witness ==
    /\ parser.byte_count = 1
    /\ parser.buffer[1] = MIDI_MAX_DATA_BYTE
    /\ parser.message_type = MIDI_MESSAGE_SONG_POSITION_POINTER
    /\ IsInitial(midi_parser_reset(parser))
    /\ \E r \in {Feed(Now, <<MIDI_MESSAGE_SYSTEM_EXCLUSIVE, 0>>)} :
           /\ r.parser.message_type = MIDI_MESSAGE_SYSTEM_EXCLUSIVE
           /\ IsInitial(midi_parser_reset(r.parser))

(***************************************************************************)
(* SpecReset: a parser fed a stream P, reset, and then fed a stream S,    *)
(* next to a newly initialized parser (shadow) fed S only                  *)
(***************************************************************************)
\* A byte of P: only the parser that is going to be reset parses it.
FeedBefore(b) ==
    /\ shadow = NoShadow
    /\ ParseByte(b)

\* midi_parser_reset after P; the caller keeps its message and its latest
\* result.  The reference instance is set up here: initialized parser,
\* zeroed message.
ResetAfterPrefix ==
    /\ shadow = NoShadow
    /\ parser' = midi_parser_reset(parser)
    /\ shadow' = Result(midi_parser_init(InitialParser), ZeroMessage, MIDI_MESSAGE_NONE)
    /\ UNCHANGED <<message, ret, script, pos, last>>

\* A byte of S: both instances parse it.  pos is 1 once a byte of S has
\* been parsed.
FeedAfter(b) ==
    /\ shadow # NoShadow
    /\ \E r \in {midi_parse_byte(parser, b, message)},
          q \in {midi_parse_byte(shadow.parser, b, shadow.message)} :
           /\ parser' = r.parser
           /\ message' = r.message
           /\ ret' = r.ret
           /\ shadow' = q
    /\ pos' = 1
    /\ UNCHANGED <<script, last>>

NextReset ==
    \/ \E b \in StreamBytes \cup {MIDI_MESSAGE_TIMING_CLOCK} : FeedBefore(b)
    \/ ResetAfterPrefix
    \/ \E b \in StreamBytes \cup {MIDI_MESSAGE_TIMING_CLOCK} : FeedAfter(b)

SpecReset == Init /\ [][NextReset]_vars

\* C14: once the parser that processed P has been reset, it is in the state
\* of the newly initialized parser, and after every byte of S the two
\* parsers are in the same state, have returned the same kind and, when
\* that kind is not None, hold the same message (kind, channel and the
\* payload members of that kind).
C14_ResetEquivalence ==
    shadow # NoShadow =>
        /\ parser = shadow.parser
        /\ pos > 0 =>
               /\ ret = shadow.ret
               /\ Report(Now) = Report(shadow)

\* P left a partial or complete message behind (the caller's message still
\* differs from the reference's), and after the reset a Note On of S has
\* been reported by both parsers.
C14_Witness ==
    /\ shadow # NoShadow
    /\ pos > 0
    /\ ret = MIDI_MESSAGE_NOTE_ON
    /\ shadow.ret = MIDI_MESSAGE_NOTE_ON
    /\ note(message) = TEST_NOTE
    /\ message.data # shadow.message.data

(***************************************************************************)
(* SpecInvalid: one parser fed a stream over StreamBytes, with calls that  *)
(* pass NULL for the parser or for the message at any time                 *)
(***************************************************************************)
AllBytes == 0..255

\* midi_parse_byte(&parser, b, NULL)
ParseMissingMessage(b) ==
    \E r \in {midi_parse_byte(parser, b, NULL)} :
    /\ parser' = r.parser
    /\ ret' = r.ret
    /\ UNCHANGED <<message, shadow, script, pos, last>>

\* midi_parse_byte(NULL, b, &message)
ParseMissingParser(b) ==
    \E r \in {midi_parse_byte(NULL, b, message)} :
    /\ message' = r.message
    /\ ret' = r.ret
    /\ UNCHANGED <<parser, shadow, script, pos, last>>

NextInvalid ==
    \/ \E b \in StreamBytes : ParseByte(b)
    \/ \E b \in StreamBytes : ParseMissingMessage(b)
    \/ \E b \in StreamBytes : ParseMissingParser(b)

SpecInvalid == Init /\ [][NextInvalid]_vars

\* C15: in every reachable state and for every byte value 0..255,
\* midi_parse_byte with a missing message returns None and leaves the parser
\* as it was, with a missing parser it returns None and leaves the message
\* as it was, with both missing it returns None; midi_parser_init with a
\* missing parser does nothing.
C15_InvalidArgumentsIgnored ==
    /\ \A b \in AllBytes :
           /\ \A r \in {midi_parse_byte(parser, b, NULL)} :
                  /\ r.ret = MIDI_MESSAGE_NONE
                  /\ r.parser = parser
                  /\ r.message = NULL
           /\ \A r \in {midi_parse_byte(NULL, b, message)} :
                  /\ r.ret = MIDI_MESSAGE_NONE
                  /\ r.parser = NULL
                  /\ r.message = message
           /\ midi_parse_byte(NULL, b, NULL) = Result(NULL, NULL, MIDI_MESSAGE_NONE)
    /\ midi_parser_init(NULL) = NULL
    /\ midi_parser_reset(NULL) = NULL

\* A Note On that holds its first data byte is still complete after a call
\* with a missing message: that call returns None and consumes nothing, and
\* the velocity sent afterwards completes the Note On.
C15_Witness ==
    /\ parser.message_type = MIDI_MESSAGE_NOTE_ON
    /\ parser.byte_count = 1
    /\ parser.buffer[1] = TEST_NOTE
    /\ ret = MIDI_MESSAGE_NONE
    /\ \E q \in {midi_parse_byte(parser, TEST_NOTE, NULL)} :
           /\ q.ret = MIDI_MESSAGE_NONE
           /\ \E r \in {midi_parse_byte(q.parser, TEST_NOTE, message)} :
                  /\ r.ret = MIDI_MESSAGE_NOTE_ON
                  /\ note(r.message) = TEST_NOTE
                  /\ velocity(r.message) = TEST_NOTE

\* The pending types that take two data bytes.
TwoByteTypes ==
    {MIDI_MESSAGE_NOTE_OFF, MIDI_MESSAGE_NOTE_ON, MIDI_MESSAGE_KEY_PRESSURE,
     MIDI_MESSAGE_CONTROL_CHANGE, MIDI_MESSAGE_PITCH_BEND,
     MIDI_MESSAGE_SONG_POSITION_POINTER}

\* C16: in every state reachable from init through bytes and resets, the
\* count is 0 or 1, below the buffer capacity MIDI_BUFFER_SIZE, and it is 1
\* only while the pending type is one of the two-data-byte types; so no call
\* finds the count at or above the capacity (the overflow guard is not
\* taken) and every buffer index used is 0 or 1.
C16_CountInvariant ==
    /\ parser.byte_count \in {0, 1}
    /\ parser.byte_count < MIDI_BUFFER_SIZE
    /\ parser.byte_count = 1 => parser.message_type \in TwoByteTypes
    /\ parser.message_type \notin TwoByteTypes => parser.byte_count = 0

\* A Pitch Bend holds its first data byte.
C16_Witness ==
    /\ parser.message_type = MIDI_MESSAGE_PITCH_BEND
    /\ parser.byte_count = 1
    /\ parser.buffer[1] = MIDI_MAX_DATA_BYTE
    /\ ret = MIDI_MESSAGE_NONE

\* The value a completed Program Change or Channel Pressure message carries.
OneByteValue(m) ==
    IF m.message_type = MIDI_MESSAGE_PROGRAM_CHANGE THEN program(m)
    ELSE channel_pressure(m)

\* C17: in every reachable state a status byte 0xC0|c (0xD0|c) returns None
\* and leaves the parser pending on Program Change (Channel Pressure) with
\* channel c and count 0; and in every reachable state pending on Program
\* Change or Channel Pressure, every data byte d in 0..127 returns that kind
\* with the pending channel and program (pressure) d and leaves the pending
\* type, the pending channel and the count 0 as they were, so the next data
\* byte completes another message.
C17_OneByteVoiceMessages ==
    /\ \A K \in {MIDI_MESSAGE_PROGRAM_CHANGE, MIDI_MESSAGE_CHANNEL_PRESSURE} :
           \A c \in Chans :
               \A r \in {midi_parse_byte(parser, K + c, message)} :
                   /\ r.ret = MIDI_MESSAGE_NONE
                   /\ r.parser.message_type = K
                   /\ r.parser.channel = c
                   /\ r.parser.byte_count = 0
    /\ parser.message_type \in {MIDI_MESSAGE_PROGRAM_CHANGE,
                                MIDI_MESSAGE_CHANNEL_PRESSURE} =>
           /\ parser.byte_count = 0
           /\ \A d \in AllDataBytes :
                  \A r \in {midi_parse_byte(parser, d, message)} :
                      /\ r.ret = parser.message_type
                      /\ r.message.message_type = parser.message_type
                      /\ r.message.channel = parser.channel
                      /\ OneByteValue(r.message) = d
                      /\ r.parser.message_type = parser.message_type
                      /\ r.parser.channel = parser.channel
                      /\ r.parser.byte_count = 0

\* A Program Change with program 127 has just been returned with the parser
\* still pending on Program Change, and the next data byte reports program
\* 0 on the same channel without a new status byte.
C17_Witness ==
    /\ ret = MIDI_MESSAGE_PROGRAM_CHANGE
    /\ program(message) = MIDI_MAX_DATA_BYTE
    /\ parser.message_type = MIDI_MESSAGE_PROGRAM_CHANGE
    /\ parser.channel = message.channel
    /\ \E r \in {midi_parse_byte(parser, 0, message)} :
           /\ r.ret = MIDI_MESSAGE_PROGRAM_CHANGE
           /\ program(r.message) = 0
           /\ r.message.channel = parser.channel

\* C18: in every reachable state 0xF3 returns None and leaves the parser
\* pending on Song Select with count 0; and in every reachable state
\* pending on Song Select, every data byte s in 0..127 returns Song Select
\* with channel None and song number s and leaves the pending type None and
\* the count 0, after which a further data byte returns None and changes
\* nothing in the parser.
C18_SongSelectClearsStatus ==
    /\ \A r \in {midi_parse_byte(parser, MIDI_MESSAGE_SONG_SELECT, message)} :
           /\ r.ret = MIDI_MESSAGE_NONE
           /\ r.parser.message_type = MIDI_MESSAGE_SONG_SELECT
           /\ r.parser.byte_count = 0
    /\ parser.message_type = MIDI_MESSAGE_SONG_SELECT =>
           \A s \in AllDataBytes :
               \A r \in {midi_parse_byte(parser, s, message)} :
                   /\ r.ret = MIDI_MESSAGE_SONG_SELECT
                   /\ r.message.message_type = MIDI_MESSAGE_SONG_SELECT
                   /\ r.message.channel = MIDI_CHANNEL_NONE
                   /\ song_select(r.message) = s
                   /\ r.parser.message_type = MIDI_MESSAGE_NONE
                   /\ r.parser.byte_count = 0
                   /\ \A d \in DataBytes :
                          \A q \in {midi_parse_byte(r.parser, d, r.message)} :
                              /\ q.ret = MIDI_MESSAGE_NONE
                              /\ q.parser = r.parser
                              /\ q.message = r.message

\* A Song Select with song number 127 has just been returned, running
\* status is cleared, and the next data byte returns None.
C18_Witness ==
    /\ ret = MIDI_MESSAGE_SONG_SELECT
    /\ message.message_type = MIDI_MESSAGE_SONG_SELECT
    /\ song_select(message) = MIDI_MAX_DATA_BYTE
    /\ message.channel = MIDI_CHANNEL_NONE
    /\ parser.message_type = MIDI_MESSAGE_NONE
    /\ midi_parse_byte(parser, MIDI_MAX_DATA_BYTE, message).ret = MIDI_MESSAGE_NONE

\* C19: in every reachable state 0xF1 returns None and leaves the parser
\* pending on MTC Quarter Frame with count 0; and in every reachable state
\* pending on MTC Quarter Frame, every data byte d in 0..127 returns MTC
\* Quarter Frame with channel None, mtc type d div 16 (in 0..7) and mtc
\* value d mod 16, and leaves the pending type None and the count 0, after
\* which a further data byte returns None.
C19_MtcQuarterFrame ==
    /\ \A r \in {midi_parse_byte(parser, MIDI_MESSAGE_MTC_QUARTER_FRAME, message)} :
           /\ r.ret = MIDI_MESSAGE_NONE
           /\ r.parser.message_type = MIDI_MESSAGE_MTC_QUARTER_FRAME
           /\ r.parser.byte_count = 0
    /\ parser.message_type = MIDI_MESSAGE_MTC_QUARTER_FRAME =>
           \A d \in AllDataBytes :
               \A r \in {midi_parse_byte(parser, d, message)} :
                   /\ r.ret = MIDI_MESSAGE_MTC_QUARTER_FRAME
                   /\ r.message.message_type = MIDI_MESSAGE_MTC_QUARTER_FRAME
                   /\ r.message.channel = MIDI_CHANNEL_NONE
                   /\ mtc_msg_type(r.message) = d \div 16
                   /\ mtc_msg_type(r.message) \in 0..7
                   /\ mtc_values(r.message) = d % 16
                   /\ r.parser.message_type = MIDI_MESSAGE_NONE
                   /\ r.parser.byte_count = 0
                   /\ \A e \in DataBytes :
                          midi_parse_byte(r.parser, e, r.message).ret = MIDI_MESSAGE_NONE

\* An MTC Quarter Frame has just been returned for data byte 127: type 7,
\* value 15, running status cleared.
C19_Witness ==
    /\ ret = MIDI_MESSAGE_MTC_QUARTER_FRAME
    /\ message.message_type = MIDI_MESSAGE_MTC_QUARTER_FRAME
    /\ mtc_msg_type(message) = 7
    /\ mtc_values(message) = 15
    /\ message.channel = MIDI_CHANNEL_NONE
    /\ parser.message_type = MIDI_MESSAGE_NONE
    /\ parser.byte_count = 0

(***************************************************************************)
(* SpecFourteenBit: every 14-bit value sent as a Pitch Bend and as a Song  *)
(* Position Pointer message to an initialized parser                       *)
(***************************************************************************)
MaxFourteenBit == 16383

\* The status bytes of the messages that carry a 14-bit value: Pitch Bend
\* on the first and on the last channel, and Song Position Pointer.
FourteenBitStatusBytes ==
    {MIDI_MESSAGE_PITCH_BEND + MIDI_CHANNEL_1,
     MIDI_MESSAGE_PITCH_BEND + MIDI_CHANNEL_MASK,
     MIDI_MESSAGE_SONG_POSITION_POINTER}

\* The sender's encoding of a 14-bit value: low seven bits, then high seven.
InitFourteenBit ==
    /\ InitScript
    /\ \E s \in FourteenBitStatusBytes, v \in 0..MaxFourteenBit :
           script = <<s, BitAnd(v, MIDI_MAX_DATA_BYTE), Shr(v, 7)>>

SpecFourteenBit == InitFourteenBit /\ [][ParseScript]_vars

\* The 14-bit value of a completed Pitch Bend or Song Position Pointer.
FourteenBitValue(m) ==
    IF m.message_type = MIDI_MESSAGE_PITCH_BEND THEN pitch_bend(m)
    ELSE song_position(m)

\* C20: the two data bytes lo, hi of a Pitch Bend or Song Position Pointer
\* message are each in 0..127, the first two calls return None, and the
\* third returns the kind with the value hi * 128 + lo, which is in
\* 0..16383 and whose low seven bits and high seven bits are the bytes
\* sent; every value in 0..16383 is sent this way.
C20_FourteenBitAssembly ==
    /\ script[2] \in AllDataBytes
    /\ script[3] \in AllDataBytes
    /\ pos \in {1, 2} => ret = MIDI_MESSAGE_NONE
    /\ pos = 3 =>
           /\ ret = (IF script[1] = MIDI_MESSAGE_SONG_POSITION_POINTER
                     THEN MIDI_MESSAGE_SONG_POSITION_POINTER
                     ELSE MIDI_MESSAGE_PITCH_BEND)
           /\ message.message_type = ret
           /\ FourteenBitValue(message) = script[3] * 128 + script[2]
           /\ FourteenBitValue(message) \in 0..MaxFourteenBit
           /\ FourteenBitValue(message) % 128 = script[2]
           /\ FourteenBitValue(message) \div 128 = script[3]

\* The Song Position Pointer for value 127 (bytes 127, 0) and the Pitch
\* Bend for value 8192 (bytes 0, 64) have been decoded.
C20_Witness ==
    /\ pos = 3
    /\ \/ /\ script = <<MIDI_MESSAGE_SONG_POSITION_POINTER, 127, 0>>
          /\ ret = MIDI_MESSAGE_SONG_POSITION_POINTER
          /\ song_position(message) = 127
       \/ /\ script = <<MIDI_MESSAGE_PITCH_BEND + MIDI_CHANNEL_1, 0, 64>>
          /\ ret = MIDI_MESSAGE_PITCH_BEND
          /\ pitch_bend(message) = 8192

\* The channel voice status bytes, 0x80..0xEF.
ChannelVoiceStatusBytes ==
    MIDI_MESSAGE_NOTE_OFF..(MIDI_MESSAGE_SYSTEM_EXCLUSIVE - 1)

\* C21: in every reachable state every channel voice status byte 0x80..0xEF
\* returns None, sets the pending type to the byte's high nibble, the
\* pending channel to its low four bits and the count to 0, and leaves the
\* message, the buffer and the active channel as they were.
C21_ChannelVoiceStatusNeverCompletes ==
    \A s \in ChannelVoiceStatusBytes :
        \A r \in {midi_parse_byte(parser, s, message)} :
            /\ r.ret = MIDI_MESSAGE_NONE
            /\ r.parser.message_type = (s \div 16) * 16
            /\ r.parser.channel = s % 16
            /\ r.parser.byte_count = 0
            /\ r.parser.buffer = parser.buffer
            /\ r.parser.active_channel = parser.active_channel
            /\ r.message = message

\* A Program Change status byte on channel 16 has been parsed after a Note
\* On was reported and one further data byte was held: it returned None,
\* the Note On is still in the message, and the count is back to 0.
C21_Witness ==
    /\ ret = MIDI_MESSAGE_NONE
    /\ parser.message_type = MIDI_MESSAGE_PROGRAM_CHANGE
    /\ parser.channel = MIDI_CHANNEL_MASK
    /\ parser.byte_count = 0
    /\ parser.buffer = <<0, MIDI_MAX_DATA_BYTE>>
    /\ message.message_type = MIDI_MESSAGE_NOTE_ON
    /\ note(message) = MIDI_MAX_DATA_BYTE

\* C22: in every reachable state each of 0xF1 (MTC Quarter Frame), 0xF2
\* (Song Position Pointer) and 0xF3 (Song Select) returns None, sets the
\* pending type to that kind, the pending channel to None and the count to
\* 0, and leaves the message as it was.
C22_SystemCommonDataStatus ==
    \A s \in SystemCommonDataTypes :
        \A r \in {midi_parse_byte(parser, s, message)} :
            /\ r.ret = MIDI_MESSAGE_NONE
            /\ r.parser.message_type = s
            /\ r.parser.channel = MIDI_CHANNEL_NONE
            /\ r.parser.byte_count = 0
            /\ r.message = message

\* A parser pending on a channel message that holds one data byte is
\* reachable, and 0xF2 then leaves it pending on Song Position Pointer with
\* channel None and count 0.
C22_Witness ==
    /\ parser.message_type = MIDI_MESSAGE_CONTROL_CHANGE
    /\ parser.channel = MIDI_CHANNEL_MASK
    /\ parser.byte_count = 1
    /\ \E r \in {midi_parse_byte(parser, MIDI_MESSAGE_SONG_POSITION_POINTER, message)} :
           /\ r.ret = MIDI_MESSAGE_NONE
           /\ r.parser.message_type = MIDI_MESSAGE_SONG_POSITION_POINTER
           /\ r.parser.channel = MIDI_CHANNEL_NONE
           /\ r.parser.byte_count = 0

(***************************************************************************)
(* SpecNoteOffKeyPressure: every Note Off and every Poly Key Pressure      *)
(* message sent to an initialized parser                                   *)
(***************************************************************************)
InitNoteOffKeyPressure ==
    /\ InitScript
    /\ \E K \in {MIDI_MESSAGE_NOTE_OFF, MIDI_MESSAGE_KEY_PRESSURE} :
       \E c \in AllChannels, a \in AllDataBytes, b \in AllDataBytes :
           script = <<K + c, a, b>>

SpecNoteOffKeyPressure == InitNoteOffKeyPressure /\ [][ParseScript]_vars

\* C23: for every channel c and data bytes a, b in 0..127, the status byte
\* 0x80|c or 0xA0|c returns None, the first data byte returns None with
\* count 1, and the second returns Note Off with channel c, note a and
\* velocity b (also when b = 0), or Poly Key Pressure with channel c, key a
\* and pressure b, with the count back to 0.
C23_NoteOffAndKeyPressureDecode ==
    LET K == (script[1] \div 16) * 16
        c == script[1] % 16
    IN /\ pos = 1 => ret = MIDI_MESSAGE_NONE /\ parser.byte_count = 0
       /\ pos = 2 => ret = MIDI_MESSAGE_NONE /\ parser.byte_count = 1
       /\ pos = 3 =>
              /\ ret = K
              /\ message.message_type = K
              /\ message.channel = c
              /\ parser.byte_count = 0
              /\ K = MIDI_MESSAGE_NOTE_OFF =>
                     /\ note(message) = script[2]
                     /\ velocity(message) = script[3]
              /\ K = MIDI_MESSAGE_KEY_PRESSURE =>
                     /\ key(message) = script[2]
                     /\ key_pressure(message) = script[3]

\* A Note Off with velocity 0 and a Poly Key Pressure with key 1 and
\* pressure 2 have been decoded.
C23_Witness ==
    /\ pos = 3
    /\ \/ /\ script = <<MIDI_MESSAGE_NOTE_OFF + MIDI_CHANNEL_MASK, TEST_NOTE, 0>>
          /\ ret = MIDI_MESSAGE_NOTE_OFF
          /\ velocity(message) = 0
       \/ /\ script = <<MIDI_MESSAGE_KEY_PRESSURE + MIDI_CHANNEL_1, 1, 2>>
          /\ ret = MIDI_MESSAGE_KEY_PRESSURE
          /\ key(message) = 1
          /\ key_pressure(message) = 2

\* A data byte finds no pending type: None is returned, parser and message
\* stay as they are.
DataIgnored(p, m) ==
    \A d \in DataBytes :
        \A r \in {midi_parse_byte(p, d, m)} :
            /\ r.ret = MIDI_MESSAGE_NONE
            /\ r.parser = p
            /\ r.message = m

\* C24: in every reachable state with pending type None, every data byte
\* 0..127 returns None and leaves every parser field and the message
\* unchanged; and that is the state a data byte finds after a reset, after
\* Tune Request or End of Exclusive, and after an MTC Quarter Frame, a Song
\* Position Pointer or a Song Select has completed.
C24_DataWithoutStatusIgnored ==
    /\ parser.message_type = MIDI_MESSAGE_NONE =>
           \A d \in AllDataBytes :
               \A r \in {midi_parse_byte(parser, d, message)} :
                   /\ r.ret = MIDI_MESSAGE_NONE
                   /\ r.parser = parser
                   /\ r.message = message
    /\ DataIgnored(midi_parser_reset(parser), message)
    /\ \A b \in SystemCommonNoDataTypes :
           \A r \in {midi_parse_byte(parser, b, message)} :
               DataIgnored(r.parser, r.message)
    /\ (\/ parser.message_type \in {MIDI_MESSAGE_MTC_QUARTER_FRAME,
                                    MIDI_MESSAGE_SONG_SELECT}
        \/ /\ parser.message_type = MIDI_MESSAGE_SONG_POSITION_POINTER
           /\ parser.byte_count = 1) =>
           \A d \in DataBytes :
               \A r \in {midi_parse_byte(parser, d, message)} :
                   /\ r.ret = parser.message_type
                   /\ DataIgnored(r.parser, r.message)

\* A data byte has been ignored after a Song Position Pointer completed:
\* the message still holds it, nothing is pending, None was returned.
C24_Witness ==
    /\ parser.message_type = MIDI_MESSAGE_NONE
    /\ parser.channel = MIDI_CHANNEL_NONE
    /\ parser.buffer = <<MIDI_MAX_DATA_BYTE, 0>>
    /\ ret = MIDI_MESSAGE_NONE
    /\ message.message_type = MIDI_MESSAGE_SONG_POSITION_POINTER
    /\ song_position(message) = MIDI_MAX_DATA_BYTE
    /\ midi_parse_byte(parser, 0, message) = Now

(***************************************************************************)
(* SpecActive: two parsers fed the same stream over StreamBytes; the       *)
(* active channel of the second (shadow) is set at any time                *)
(***************************************************************************)
ActiveChannels == {MIDI_CHANNEL_1, MIDI_CHANNEL_2, MIDI_CHANNEL_NONE}

\* midi_parser_set_active_channel(&shadow_parser, channel)
SetActiveChannel(channel) ==
    /\ shadow' = [shadow EXCEPT
                    !.parser = midi_parser_set_active_channel(shadow.parser, channel)]
    /\ UNCHANGED <<parser, message, ret, script, pos, last>>

NextActive ==
    \/ \E b \in StreamBytes : FeedBoth(b)
    \/ \E channel \in ActiveChannels : SetActiveChannel(channel)

SpecActive == InitRT /\ [][NextActive]_vars

\* C25: the two parsers, which differ at most in their active channel,
\* agree after every byte in every other parser field, in the returned kind
\* and in the message; and no call of midi_parse_byte, for any byte value
\* 0..255, changes the active channel.
C25_ActiveChannelPassThrough ==
    /\ parser = [shadow.parser EXCEPT !.active_channel = parser.active_channel]
    /\ ret = shadow.ret
    /\ message = shadow.message
    /\ \A b \in AllBytes :
           midi_parser_get_active_channel(
               midi_parse_byte(shadow.parser, b, shadow.message).parser)
             = midi_parser_get_active_channel(shadow.parser)

\* With the active channel of the second parser set to channel 2, both
\* parsers have just reported the same Note On on channel 1.
C25_Witness ==
    /\ midi_parser_get_active_channel(shadow.parser) = MIDI_CHANNEL_2
    /\ midi_parser_get_active_channel(parser) = MIDI_CHANNEL_NONE
    /\ ret = MIDI_MESSAGE_NOTE_ON
    /\ shadow.ret = MIDI_MESSAGE_NOTE_ON
    /\ message.channel = MIDI_CHANNEL_1
    /\ shadow.message.channel = MIDI_CHANNEL_1
    /\ note(shadow.message) = TEST_NOTE

\* C26: whenever the active channel of a parser is a channel other than
\* MIDI_CHANNEL_NONE, a call of midi_parse_byte that returns a channel
\* message returns one on the active channel; when it is MIDI_CHANNEL_NONE,
\* channel messages of all channels are returned.
C26_ActiveChannelFilters ==
    midi_parser_get_active_channel(shadow.parser) # MIDI_CHANNEL_NONE =>
        \A b \in StreamBytes :
            \A r \in {midi_parse_byte(shadow.parser, b, shadow.message)} :
                (r.ret # MIDI_MESSAGE_NONE /\ r.message.channel # MIDI_CHANNEL_NONE)
                    => r.message.channel = midi_parser_get_active_channel(shadow.parser)

\* One byte from each family: a two-data-byte status on channel 1, a
\* one-data-byte status on channel 2, and two data bytes.
InstanceBytes ==
    {MIDI_MESSAGE_NOTE_ON + MIDI_CHANNEL_1,
     MIDI_MESSAGE_PROGRAM_CHANGE + MIDI_CHANNEL_2,
     0, TEST_NOTE}

\* C28: in every reachable state pending on Song Position Pointer, the
\* first data byte returns None and is held (count 1), and the second
\* returns Song Position Pointer with channel None and leaves the pending
\* type None, the pending channel None and the count 0, after which a
\* further data byte returns None and changes nothing: it does not start
\* another Song Position Pointer.
C28_SongPositionClearsStatus ==
    parser.message_type = MIDI_MESSAGE_SONG_POSITION_POINTER =>
        /\ parser.channel = MIDI_CHANNEL_NONE
        /\ parser.byte_count = 0 =>
               \A d \in AllDataBytes :
                   \A r \in {midi_parse_byte(parser, d, message)} :
                       /\ r.ret = MIDI_MESSAGE_NONE
                       /\ r.parser.message_type = MIDI_MESSAGE_SONG_POSITION_POINTER
                       /\ r.parser.byte_count = 1
                       /\ r.parser.buffer[1] = d
        /\ parser.byte_count = 1 =>
               \A d \in AllDataBytes :
                   \A r \in {midi_parse_byte(parser, d, message)} :
                       /\ r.ret = MIDI_MESSAGE_SONG_POSITION_POINTER
                       /\ r.message.message_type = MIDI_MESSAGE_SONG_POSITION_POINTER
                       /\ r.message.channel = MIDI_CHANNEL_NONE
                       /\ r.parser.message_type = MIDI_MESSAGE_NONE
                       /\ r.parser.channel = MIDI_CHANNEL_NONE
                       /\ r.parser.byte_count = 0
                       /\ \A e \in DataBytes :
                              \A q \in {midi_parse_byte(r.parser, e, r.message)} :
                                  /\ q.ret = MIDI_MESSAGE_NONE
                                  /\ q.parser = r.parser

\* A Song Position Pointer (16383) has just been reported; nothing is
\* pending, and two more data bytes report nothing.
C28_Witness ==
    /\ ret = MIDI_MESSAGE_SONG_POSITION_POINTER
    /\ message.message_type = MIDI_MESSAGE_SONG_POSITION_POINTER
    /\ message.channel = MIDI_CHANNEL_NONE
    /\ song_position(message) = 16383
    /\ parser.message_type = MIDI_MESSAGE_NONE
    /\ parser.channel = MIDI_CHANNEL_NONE
    /\ parser.byte_count = 0
    /\ \E r \in {Feed(Now, <<0, MIDI_MAX_DATA_BYTE>>)} :
           /\ r.ret = MIDI_MESSAGE_NONE
           /\ r.parser = parser

\* C29: in every reachable state pending on SysEx, whatever was parsed
\* before the SysEx-Start byte, the pending channel is None and the count
\* is 0.
C29_SysExPendingChannelNone ==
    parser.message_type = MIDI_MESSAGE_SYSTEM_EXCLUSIVE =>
        /\ parser.channel = MIDI_CHANNEL_NONE
        /\ parser.byte_count = 0

(***************************************************************************)
(* SpecOverflow: parse_data_byte reached with a count at or beyond the     *)
(* buffer capacity, for every pending type                                 *)
(***************************************************************************)
\* Every value parser->message_type takes, None included.
PendingTypes ==
    ChannelVoiceTypes \cup SystemCommonDataTypes
    \cup {MIDI_MESSAGE_SYSTEM_EXCLUSIVE, MIDI_MESSAGE_NONE}

\* Parsers whose uint8_t count is at or beyond MIDI_BUFFER_SIZE.
OverflowedParsers ==
    [message_type : PendingTypes,
     channel : {MIDI_CHANNEL_1, MIDI_CHANNEL_NONE},
     active_channel : {MIDI_CHANNEL_NONE},
     buffer : {<<0, 0>>, <<TEST_NOTE, MIDI_MAX_DATA_BYTE>>},
     byte_count : {MIDI_BUFFER_SIZE, MIDI_BUFFER_SIZE + 1, 255}]

\* shadow keeps the parser and the message as they were before the call.
InitOverflow ==
    /\ parser \in OverflowedParsers
    /\ message = ZeroMessage
    /\ ret = MIDI_MESSAGE_NONE
    /\ shadow = Result(parser, message, MIDI_MESSAGE_NONE)
    /\ \E d \in AllDataBytes : script = <<d>>
    /\ pos = 0
    /\ last = NoCall

SpecOverflow == InitOverflow /\ [][ParseScript]_vars

\* C30: a data byte that finds the count at or beyond the buffer capacity,
\* whatever the pending type, returns None, sets the count to 0 and leaves
\* the pending type, the pending channel, the buffer (no element written)
\* and the message as they were.
C30_OverflowGuard ==
    pos = 1 =>
        /\ shadow.parser.byte_count >= MIDI_BUFFER_SIZE
        /\ ret = MIDI_MESSAGE_NONE
        /\ parser.byte_count = 0
        /\ parser.message_type = shadow.parser.message_type
        /\ parser.channel = shadow.parser.channel
        /\ parser.buffer = shadow.parser.buffer
        /\ parser.active_channel = shadow.parser.active_channel
        /\ message = shadow.message

\* Program Change, a one-data-byte type, was pending with count 2: the data
\* byte 127 was ignored, the buffer kept, the count reset.
C30_Witness ==
    /\ pos = 1
    /\ script = <<MIDI_MAX_DATA_BYTE>>
    /\ shadow.parser.message_type = MIDI_MESSAGE_PROGRAM_CHANGE
    /\ shadow.parser.byte_count = MIDI_BUFFER_SIZE
    /\ parser.message_type = MIDI_MESSAGE_PROGRAM_CHANGE
    /\ parser.byte_count = 0
    /\ parser.buffer = <<TEST_NOTE, MIDI_MAX_DATA_BYTE>>
    /\ ret = MIDI_MESSAGE_NONE
    /\ message = ZeroMessage

\* C31: in every reachable state, a call of midi_parse_byte that returns
\* MIDI_MESSAGE_NONE, with any byte, leaves the caller's message as it was:
\* type, channel and every byte of the payload union.
C31_NoneLeavesMessage ==
    \A b \in Bytes :
        \A r \in {midi_parse_byte(parser, b, message)} :
            r.ret = MIDI_MESSAGE_NONE => r.message = message

\* A Note On (note 127, velocity 127) was decoded, then a Note Off status
\* byte and the data byte 0 were parsed: the latest call returned None with
\* the 0 accumulated, and the Note On is still in the message.
C31_Witness ==
    /\ ret = MIDI_MESSAGE_NONE
    /\ parser.message_type = MIDI_MESSAGE_NOTE_OFF
    /\ parser.byte_count = 1
    /\ parser.buffer[1] = 0
    /\ message.message_type = MIDI_MESSAGE_NOTE_ON
    /\ message.channel \in Chans
    /\ note(message) = MIDI_MAX_DATA_BYTE
    /\ velocity(message) = MIDI_MAX_DATA_BYTE

\* The channel-mode members of midi_message_type_t (0x78..0x7F).
ChannelModeTypes ==
    {MIDI_MESSAGE_ALL_SOUND_OFF, MIDI_MESSAGE_RESET_ALL_CONTROLLERS,
     MIDI_MESSAGE_LOCAL_CONTROL, MIDI_MESSAGE_ALL_NOTES_OFF,
     MIDI_MESSAGE_OMNI_OFF, MIDI_MESSAGE_OMNI_ON, MIDI_MESSAGE_MONO_ON,
     MIDI_MESSAGE_POLY_ON}

\* Every member of midi_message_type_t.
MessageTypes ==
    {MIDI_MESSAGE_NONE, MIDI_MESSAGE_SYSTEM_EXCLUSIVE}
    \cup ChannelVoiceTypes \cup ChannelModeTypes
    \cup SystemCommonDataTypes \cup SystemCommonNoDataTypes
    \cup SystemRealTimeTypes

\* C32: in every reachable state the pending type is None, a channel voice
\* type, SysEx, MTC Quarter Frame, Song Position Pointer or Song Select,
\* never a channel-mode type, Tune Request, End of Exclusive or a real-time
\* type; the value returned by the latest call, and by a call with any
\* byte, is a member of midi_message_type_t.
C32_PendingAndReturnedKinds ==
    /\ parser.message_type \in PendingTypes
    /\ parser.message_type \notin
           ChannelModeTypes \cup SystemCommonNoDataTypes \cup SystemRealTimeTypes
    /\ ret \in MessageTypes
    /\ \A b \in Bytes :
           \A r \in {midi_parse_byte(parser, b, message)} :
               r.ret \in MessageTypes

\* A Control Change with controller 127 and value 0 has just been returned
\* as Poly On, a channel-mode kind, while the pending type is still Control
\* Change.
C32_Witness ==
    /\ ret = MIDI_MESSAGE_POLY_ON
    /\ ret \in ChannelModeTypes
    /\ control_value(message) = 0
    /\ parser.message_type = MIDI_MESSAGE_CONTROL_CHANGE
    /\ parser.channel \in Chans

(***************************************************************************)
(* SpecChannel: one parser fed any stream over two channels, reset at any  *)
(* time, with the most recent channel voice status byte recorded in last   *)
(***************************************************************************)
\* Every status byte 0xF0..0xFF, every channel voice status byte of
\* channels 1 and 2, and the lowest and the highest data byte.
ChannelStreamBytes ==
    {0, MIDI_MAX_DATA_BYTE}
    \cup {s \in 128..255 :
             \/ s >= MIDI_MESSAGE_SYSTEM_EXCLUSIVE
             \/ BitAnd(s, MIDI_CHANNEL_MASK) \in {MIDI_CHANNEL_1, MIDI_CHANNEL_2}}

\* One call; last.byte becomes b when b is a channel voice status byte.
ParseChannelStream(b) ==
    /\ \E r \in {midi_parse_byte(parser, b, message)} :
           /\ parser' = r.parser
           /\ message' = r.message
           /\ ret' = r.ret
    /\ last' = IF b \in ChannelVoiceStatusBytes
               THEN [inserted |-> FALSE, byte |-> b]
               ELSE last
    /\ UNCHANGED <<shadow, script, pos>>

NextChannel ==
    \/ \E b \in ChannelStreamBytes : ParseChannelStream(b)
    \/ Reset

SpecChannel == Init /\ [][NextChannel]_vars

\* The kinds of the system messages: SysEx start, system common, real-time.
SystemTypes ==
    {MIDI_MESSAGE_SYSTEM_EXCLUSIVE} \cup SystemCommonDataTypes
    \cup SystemCommonNoDataTypes \cup SystemRealTimeTypes

\* C33: in every reachable state, a channel voice pending type comes with a
\* pending channel in 0..15, the low four bits of the most recent channel
\* voice status byte; a pending type of None, MTC Quarter Frame, Song
\* Position Pointer or Song Select comes with the pending channel None; a
\* channel voice or channel-mode message just returned carries a channel in
\* 0..15 equal to the low four bits of the most recent channel voice status
\* byte; and a system message just returned carries the channel None.
C33_ChannelConsistency ==
    /\ parser.message_type \in ChannelVoiceTypes =>
           /\ parser.channel \in 0..15
           /\ last.byte \in ChannelVoiceStatusBytes
           /\ parser.channel = BitAnd(last.byte, MIDI_CHANNEL_MASK)
    /\ parser.message_type \in {MIDI_MESSAGE_NONE} \cup SystemCommonDataTypes =>
           parser.channel = MIDI_CHANNEL_NONE
    /\ ret \in ChannelVoiceTypes \cup ChannelModeTypes =>
           /\ message.message_type = ret
           /\ message.channel \in 0..15
           /\ last.byte \in ChannelVoiceStatusBytes
           /\ message.channel = BitAnd(last.byte, MIDI_CHANNEL_MASK)
    /\ ret \in SystemTypes =>
           /\ message.message_type = ret
           /\ message.channel = MIDI_CHANNEL_NONE

\* A channel-mode message (Poly On) has just been returned on channel 2,
\* the channel of the most recent channel voice status byte 0xB1.
C33_Witness ==
    /\ ret = MIDI_MESSAGE_POLY_ON
    /\ last.byte = MIDI_MESSAGE_CONTROL_CHANGE + MIDI_CHANNEL_2
    /\ message.channel = MIDI_CHANNEL_2
    /\ parser.channel = MIDI_CHANNEL_2
    /\ parser.message_type = MIDI_MESSAGE_CONTROL_CHANGE
    /\ controller(message) = MIDI_CC_POLY_ON
    /\ control_value(message) = 0

(***************************************************************************)
(* SpecHistory: two parsers, each fed a stream of its own of any length,   *)
(* then both fed one common stream that begins with a status byte          *)
(***************************************************************************)
\* The bytes of the two prior streams: those of InstanceBytes and SysEx
\* start, so that the instances can differ in pending type, pending channel,
\* count, buffer and message.
PriorBytes == InstanceBytes \cup {MIDI_MESSAGE_SYSTEM_EXCLUSIVE}

\* The first byte of the common stream: a channel voice status byte of each
\* type, SysEx start, or a system common status byte.
CommonStatusBytes ==
    {t + MIDI_CHANNEL_1 : t \in ChannelVoiceTypes}
    \cup {MIDI_MESSAGE_SYSTEM_EXCLUSIVE}
    \cup SystemCommonDataTypes \cup SystemCommonNoDataTypes

\* The later bytes of the common stream: those status bytes, two data
\* bytes, a real-time byte and an undefined status byte.
CommonBytes ==
    CommonStatusBytes \cup {0, TEST_NOTE, MIDI_MESSAGE_TIMING_CLOCK, 244}

\* pos = 0 while the instances are fed their own streams.
PriorOwn(b) ==
    /\ pos = 0
    /\ \E r \in {midi_parse_byte(parser, b, message)} :
           /\ parser' = r.parser
           /\ message' = r.message
           /\ ret' = r.ret
    /\ UNCHANGED <<shadow, script, pos, last>>

PriorOther(b) ==
    /\ pos = 0
    /\ shadow' = midi_parse_byte(shadow.parser, b, shadow.message)
    /\ UNCHANGED <<parser, message, ret, script, pos, last>>

\* The first byte of the common stream.
CommonStatus(s) ==
    /\ pos = 0
    /\ \E r \in {midi_parse_byte(parser, s, message)} :
           /\ parser' = r.parser
           /\ message' = r.message
           /\ ret' = r.ret
    /\ shadow' = midi_parse_byte(shadow.parser, s, shadow.message)
    /\ pos' = 1
    /\ UNCHANGED <<script, last>>

\* Every later byte of the common stream.
CommonByte(b) ==
    /\ pos = 1
    /\ FeedBoth(b)

NextHistory ==
    \/ \E b \in PriorBytes : PriorOwn(b)
    \/ \E b \in PriorBytes : PriorOther(b)
    \/ \E s \in CommonStatusBytes : CommonStatus(s)
    \/ \E b \in CommonBytes : CommonByte(b)

SpecHistory == InitRT /\ [][NextHistory]_vars

\* C34: after two parsers with any prior streams have been fed the same
\* stream that begins with a channel voice, SysEx-start or system common
\* status byte, the latest call returned the same kind on both and, when a
\* message was returned, the same type, channel and payload; the pending
\* type and the count are the same, and so is the pending channel unless
\* SysEx is pending.
C34_HistoryIndependence ==
    pos = 1 =>
        /\ ret = shadow.ret
        /\ Report(Now) = Report(shadow)
        /\ parser.message_type = shadow.parser.message_type
        /\ parser.byte_count = shadow.parser.byte_count
        /\ parser.message_type # MIDI_MESSAGE_SYSTEM_EXCLUSIVE =>
               parser.channel = shadow.parser.channel
        /\ parser.byte_count >= 1 => parser.buffer[1] = shadow.parser.buffer[1]

\* Both instances have just returned the same Program Change from the
\* common stream, although one had decoded a Note On with note 60 and
\* velocity 60 before (its bytes are in the buffer and in the unused part of
\* the message) and the other had not.
C34_Witness ==
    /\ pos = 1
    /\ ret = MIDI_MESSAGE_PROGRAM_CHANGE
    /\ shadow.ret = MIDI_MESSAGE_PROGRAM_CHANGE
    /\ program(message) = TEST_NOTE
    /\ program(shadow.message) = TEST_NOTE
    /\ message.channel = MIDI_CHANNEL_1
    /\ parser.buffer = <<TEST_NOTE, TEST_NOTE>>
    /\ shadow.parser.buffer = <<0, 0>>
    /\ velocity(message) = TEST_NOTE
    /\ velocity(shadow.message) = 0

(***************************************************************************)
(* SpecSysEx: an initialized parser fed every stream of MaxSysEx bytes     *)
(* over SysEx start, End of Exclusive and one byte of each other family    *)
(***************************************************************************)
MaxSysEx == 4

\* SysEx start, End of Exclusive, a data byte, a real-time byte, an
\* undefined status byte and a channel voice status byte.
SysExBytes ==
    {MIDI_MESSAGE_SYSTEM_EXCLUSIVE, MIDI_MESSAGE_END_OF_EXCLUSIVE, TEST_NOTE,
     MIDI_MESSAGE_TIMING_CLOCK, 244, MIDI_MESSAGE_NOTE_ON + MIDI_CHANNEL_1}

InitSysEx ==
    /\ InitScript
    /\ script \in [1..MaxSysEx -> SysExBytes]

SpecSysEx == InitSysEx /\ [][ParseScript]_vars

\* The status bytes with a case of their own in parse_status_byte other
\* than the real-time ones.
IsDefinedNonRealTimeStatus(b) ==
    /\ BitAnd(b, MIDI_MSB_MASK) # 0
    /\ b \notin SystemRealTimeTypes
    /\ b \notin UndefinedStatusBytes

\* Byte i of script comes after a SysEx start with no defined non-real-time
\* status byte in between, and is not such a status byte itself.
InsideSysEx(i) ==
    /\ ~IsDefinedNonRealTimeStatus(script[i])
    /\ \E j \in 1..(i - 1) :
           /\ script[j] = MIDI_MESSAGE_SYSTEM_EXCLUSIVE
           /\ \A k \in (j + 1)..(i - 1) : ~IsDefinedNonRealTimeStatus(script[k])

\* C35: whatever came before, End of Exclusive is returned as a completed
\* message (also with no SysEx start before it) and SysEx start is returned
\* as SysEx start (also when SysEx is already pending); and a byte between
\* a SysEx start and the next defined non-real-time status byte is returned
\* as its own kind when it is a real-time byte and returns None otherwise,
\* so that no message other than a real-time one is returned there.
C35_SysExFramingNotChecked ==
    pos >= 1 =>
        /\ script[pos] = MIDI_MESSAGE_END_OF_EXCLUSIVE =>
               /\ ret = MIDI_MESSAGE_END_OF_EXCLUSIVE
               /\ message.message_type = MIDI_MESSAGE_END_OF_EXCLUSIVE
               /\ parser.message_type = MIDI_MESSAGE_NONE
        /\ script[pos] = MIDI_MESSAGE_SYSTEM_EXCLUSIVE =>
               /\ ret = MIDI_MESSAGE_SYSTEM_EXCLUSIVE
               /\ message.message_type = MIDI_MESSAGE_SYSTEM_EXCLUSIVE
               /\ parser.message_type = MIDI_MESSAGE_SYSTEM_EXCLUSIVE
        /\ InsideSysEx(pos) =>
               /\ parser.message_type = MIDI_MESSAGE_SYSTEM_EXCLUSIVE
               /\ ret = IF script[pos] \in SystemRealTimeTypes
                        THEN script[pos]
                        ELSE MIDI_MESSAGE_NONE

\* The stream began with End of Exclusive, with no SysEx in progress, which
\* was reported (the message union still holds nothing else); two SysEx
\* starts followed, and the second has just been returned as SysEx start.
C35_Witness ==
    /\ pos = 3
    /\ script[1] = MIDI_MESSAGE_END_OF_EXCLUSIVE
    /\ script[2] = MIDI_MESSAGE_SYSTEM_EXCLUSIVE
    /\ script[3] = MIDI_MESSAGE_SYSTEM_EXCLUSIVE
    /\ ret = MIDI_MESSAGE_SYSTEM_EXCLUSIVE
    /\ parser.message_type = MIDI_MESSAGE_SYSTEM_EXCLUSIVE
    /\ message.channel = MIDI_CHANNEL_NONE

====
